---- MODULE Spec2Model ----
(***************************************************************************)
(* Subscription lifecycle reconciliation of the billing backend:           *)
(*   - StripeService (backend/src/services/stripe.service.ts)              *)
(*   - the stripe / subscription routes (backend/src/routes/               *)
(*     billing.routes.ts)                                                  *)
(*   - PlansService.syncPlanWithStripe (plans.service.ts)                  *)
(* together with the payment provider as the environment: it holds the     *)
(* customers, prices, subscriptions and checkout sessions, and pushes      *)
(* webhook events that are delivered in any order, possibly more than      *)
(* once.                                                                   *)
(*                                                                         *)
(* Identifiers the provider or the database hands out are positions in     *)
(* the sequence that holds the object (0 is null/absent); a subscription's *)
(* `created` timestamp is its position in stripeSubs.                      *)
(***************************************************************************)
EXTENDS Integers, Sequences, FiniteSets, TLC

(* ------------------------------ bounds -------------------------------- *)
\* checkout sessions the provider will hold (each completes at most once,
\* so this also bounds the provider's subscriptions)
MaxSessions == 2
\* webhook events the provider emits in total
MaxEvents == 3
\* billing periods a subscription can be renewed into
MaxPeriod == 1
\* handleCheckoutCompleted calls that are suspended at the same time
MaxHandlers == 2
\* invoices the provider issues
MaxInvoices == 1
\* customers the provider holds
MaxCustomers == 2
\* rows the plans table holds when the catalog starts empty
MaxPlans == 2
\* prices the provider holds for one plan and interval
MaxPrices == 2
\* subscriptions a customer holds at the provider when the user comes back
\* to check out
MaxSubs == 3

Users == {"u1"}
PlanIds == {"p1", "p2"}
\* getActivePlans(): the plans by sortOrder
PlanOrder == <<"p1", "p2">>
\* what the checkout requests of the model ask for: plan and interval
\* ("px" is in no row of the plans table)
Orders == {<<"p1", "monthly">>, <<"p2", "yearly">>, <<"px", "monthly">>}
Intervals == {"monthly", "yearly"}
\* concurrent POST /stripe/create-checkout-session requests
Requests == {"r1"}

VARIABLES
  plans,          \* plans table: plan id -> row
  users,          \* users table: user id -> stripeCustomerId (0 = null)
  subscriptions,  \* subscriptions table, in insertion (rowid) order
  invoices,       \* invoices table, in insertion order
  customers,      \* provider: customers, each with its metadata.userId
  prices,         \* provider: the ids of its prices
  products,       \* provider: the products, each with its metadata.plan_id
  stripeSubs,     \* provider: subscriptions
  stripeInvoices, \* provider: invoices
  sessions,       \* provider: checkout sessions
  events,         \* provider: webhook events not yet (finally) delivered
  emitted,        \* provider: how many events it has made (the last event id)
  req,            \* create-checkout-session requests in progress
  pending,        \* handleCheckoutCompleted calls suspended before the write
  response        \* the HTTP response the last step sent, if it sent one

dbVars == <<plans, users, subscriptions, invoices>>
vars == <<plans, users, subscriptions, invoices, customers, prices, products,
          stripeSubs, stripeInvoices, sessions, events, emitted, req, pending, response>>

(* ------------------------------ helpers ------------------------------- *)
Indices(s) == 1..Len(s)

RemoveAt(s, i) == SubSeq(s, 1, i - 1) \o SubSeq(s, i + 1, Len(s))

Min(S) == CHOOSE x \in S : \A y \in S : x <= y

Max(S) == CHOOSE x \in S : \A y \in S : x >= y

\* new Date(seconds * 1000): provider timestamps are seconds, rows hold
\* Date values (milliseconds)
ToDate(seconds) == seconds * 1000

\* The id of the n-th price the provider makes for a plan's interval; the
\* price's recurring interval is the one it was created with.  NoPrice is
\* the null price id
PriceId(planId, interval, n) == [plan |-> planId, interval |-> interval, n |-> n]

NoPrice == PriceId("", "", 0)

\* schema.plans: the columns the billing core reads
PlanRow(slug) ==
  [slug |-> slug, monthlyPrice |-> 1900, isActive |-> TRUE,
   stripePriceIdMonthly |-> NoPrice, stripePriceIdYearly |-> NoPrice]

\* db.query.plans.findFirst({ where: eq(plans.id, planId) })
PlanExists(planId) == planId \in DOMAIN plans

PriceOf(plan, billingInterval) ==
  IF billingInterval = "monthly" THEN plan.stripePriceIdMonthly
  ELSE plan.stripePriceIdYearly

\* price.recurring.interval of a provider price; there is none ("") when
\* the subscription has no priced item
RecurringInterval(priceId) ==
  CASE priceId.interval = "yearly" -> "year"
    [] priceId.interval = "monthly" -> "month"
    [] priceId.interval = "weekly" -> "week"
    [] OTHER -> ""

\* db.query.subscriptions.findFirst({ where: eq(stripeSubscriptionId, id) }):
\* the position of the first matching row, 0 when there is none
FindRow(table, subId) ==
  LET m == {i \in Indices(table) : table[i].stripeSubscriptionId = subId}
  IN IF m = {} THEN 0 ELSE Min(m)

FindByStripeId(subId) == FindRow(subscriptions, subId)

\* db.query.subscriptions.findFirst({ where: eq(userId, id) })
FindByUser(userId) ==
  LET m == {i \in Indices(subscriptions) : subscriptions[i].userId = userId}
  IN IF m = {} THEN 0 ELSE Min(m)

RowsOfUser(userId) ==
  {i \in Indices(subscriptions) : subscriptions[i].userId = userId}

RowsOfStripeId(subId) ==
  {i \in Indices(subscriptions) : subscriptions[i].stripeSubscriptionId = subId}

\* stripe.subscriptions.list({ customer, status: 'active' })
ActiveSubs(customerId) ==
  {s \in Indices(stripeSubs) :
     stripeSubs[s].customer = customerId /\ stripeSubs[s].status = "active"}

\* the webhook event the provider sends for subscription s: its id (events
\* are numbered as they are made) and a snapshot of the subscription
SubEvent(id, type, s, sub) ==
  [id |-> id, type |-> type, session |-> 0, sub |-> s, status |-> sub.status,
   period |-> sub.period, cancel |-> sub.cancel_at_period_end,
   price |-> sub.price, interval |-> RecurringInterval(sub.price),
   customer |-> sub.customer, invoice |-> 0, amount_paid |-> 0]

\* the webhook event the provider sends for invoice i: a snapshot of the
\* invoice (the fields of a subscription are unused)
InvoiceEvent(id, type, i, inv) ==
  [id |-> id, type |-> type, session |-> 0, sub |-> inv.subscription,
   status |-> inv.status, period |-> 0, cancel |-> FALSE, price |-> NoPrice,
   interval |-> "", customer |-> inv.customer, invoice |-> i,
   amount_paid |-> inv.amount_paid]

CanEmit(n) == emitted + n <= MaxEvents

IdleReq == [pc |-> "idle", userId |-> "", planId |-> "", billingInterval |-> "",
            priceId |-> NoPrice, customerId |-> 0]

\* res.status(code).json(body) of a route
Response(route, code, body) ==
  [route |-> route, code |-> code, body |-> body]

\* the step sent no response
NoResponse == Response("none", 0, "")

CheckoutResponse(code, body) == Response("create-checkout-session", code, body)

\* POST /stripe/webhook: the answer to an event of the given type,
\* res.json({ received: true })
Received(type) == Response(type, 200, "received")

\* the catch of the route answering with an error status
HandlerError_500(type) == Response(type, 500, "Handler error")

\* POST /stripe/webhook, a handler threw:
\* res.status(200).json({ received: true, error: 'Handler error' })
HandlerError(type) == Response(type, 200, "Handler error")

(* ------------------------------- Init --------------------------------- *)
\* no user has a customer, no table but plans has a row, the provider holds
\* nothing, no request is in progress
NoRows ==
  /\ users = [u \in Users |-> 0]
  /\ subscriptions = <<>>
  /\ invoices = <<>>
  /\ customers = <<>>
  /\ prices = {}
  /\ products = <<>>
  /\ stripeSubs = <<>>
  /\ stripeInvoices = <<>>
  /\ sessions = <<>>
  /\ events = {}
  /\ req = [r \in Requests |-> IdleReq]
  /\ pending = <<>>
  /\ emitted = 0
  /\ response = NoResponse

\* after seedDefaultPlans: the default plans exist and are not yet synced
\* (the model carries two of the three, starter and professional)
Init ==
  /\ plans = [p \in PlanIds |->
                PlanRow(IF p = "p1" THEN "starter" ELSE "professional")]
  /\ NoRows

\* a migrated database before the first initialize(): no plan either
InitCatalog ==
  /\ plans = [p \in {} |-> PlanRow("")]
  /\ NoRows

\* two create-checkout-session requests can be in progress at once
RaceRequests == {"r1", "r2"}

\* as Init, for two concurrent requests
InitRace ==
  /\ plans = [p \in PlanIds |->
                PlanRow(IF p = "p1" THEN "starter" ELSE "professional")]
  /\ users = [u \in Users |-> 0]
  /\ subscriptions = <<>>
  /\ invoices = <<>>
  /\ customers = <<>>
  /\ prices = {}
  /\ products = <<>>
  /\ stripeSubs = <<>>
  /\ stripeInvoices = <<>>
  /\ sessions = <<>>
  /\ events = {}
  /\ req = [r \in RaceRequests |-> IdleReq]
  /\ pending = <<>>
  /\ emitted = 0
  /\ response = NoResponse

\* Subscription.status values of the provider that the model carries
SubStatuses == {"active", "past_due", "trialing", "incomplete", "canceled"}

(* ------------------------- PlansService ------------------------------- *)
RECURSIVE SyncedAll(_, _, _, _, _, _)

\* crypto.randomUUID() of createPlan: the id of the n-th plan row
PlanId(n) ==
  CASE n = 1 -> "p1" [] n = 2 -> "p2" [] n = 3 -> "p3" [] n = 4 -> "p4"
    [] OTHER -> "p5"

\* the plans table with one more row
WithPlan(table, planId, row) ==
  [p \in DOMAIN table \cup {planId} |-> IF p = planId THEN row ELSE table[p]]

\* db.query.plans.findMany(): the ids of the rows, as they were inserted
AllPlans(table) ==
  LET n == Cardinality(DOMAIN table)
  IN [i \in 1..n |-> PlanId(i)]

\* getActivePlans(): the rows with isActive (the sort by sortOrder, which
\* the model does not carry, only permutes them)
ActivePlans(table) == SelectSeq(AllPlans(table), LAMBDA p : table[p].isActive)

\* getPlanBySlug(slug): the id of the row, "" when there is none (slugs are
\* unique)
PlanBySlug(table, slug) ==
  LET found == {p \in DOMAIN table : table[p].slug = slug}
  IN IF found = {} THEN "" ELSE CHOOSE p \in found : TRUE

\* stripe.prices.create for a plan's interval: the provider's next id
CreatedPrice(planId, interval, existing) ==
  PriceId(planId, interval,
          1 + Cardinality({q \in existing :
                             q.plan = planId /\ q.interval = interval}))

\* stripe.products.search({ query: metadata['plan_id'] }): the position of
\* the first product of the plan, 0 when there is none
FindProduct(prods, planId) ==
  LET m == {i \in Indices(prods) : prods[i].plan_id = planId}
  IN IF m = {} THEN 0 ELSE Min(m)

\* what can go wrong in one syncPlanWithStripe call: nothing, or one of its
\* calls throws: those for the product, the creation of the monthly price,
\* that of the yearly price, the update of the plan row
SyncFaults == {"none", "product", "monthly", "yearly", "db"}

\* syncPlanWithStripe that looks for the plan before it looks for the
\* provider client
SyncedPlan_PlanFirst(table, existing, prods, planId, stripe, fault) ==
  [plans |-> table, prices |-> existing, products |-> prods,
   result |-> IF planId \notin DOMAIN table THEN "null"
              ELSE IF ~stripe THEN "not configured" ELSE "error"]

\* syncPlanWithStripe with an update of the plan row after each price it
\* creates: the monthly id is recorded although the yearly creation throws
SyncedPlan_WriteEach(table, existing, prods, planId, stripe, fault) ==
  IF ~stripe
  THEN [plans |-> table, prices |-> existing, products |-> prods,
        result |-> "not configured"]
  ELSE IF planId \notin DOMAIN table
  THEN [plans |-> table, prices |-> existing, products |-> prods,
        result |-> "null"]
  ELSE IF fault # "yearly" \/ table[planId].stripePriceIdMonthly # NoPrice
  THEN [plans |-> table, prices |-> existing, products |-> prods,
        result |-> "error"]
  ELSE LET monthlyPriceId == CreatedPrice(planId, "monthly", existing)
       IN [plans |-> [table EXCEPT ![planId].stripePriceIdMonthly = monthlyPriceId],
           prices |-> existing \cup {monthlyPriceId},
           products |-> prods, result |-> "error"]

\* syncPlanWithStripe(planId) in a process with (stripe) or without a
\* provider client: the tables and the provider's objects after the call
\* and how it ended: "not configured" and "error" are thrown, "null" and
\* "synced" returned.  The product of the plan is created when the provider
\* has none (the model does not carry what the update of a product sets); a
\* price is created only for an interval whose id is not recorded; both ids
\* are then written in one update
SyncedPlan(table, existing, prods, planId, stripe, fault) ==
  IF ~stripe
  THEN [plans |-> table, prices |-> existing, products |-> prods,
        result |-> "not configured"]
  ELSE IF planId \notin DOMAIN table
  THEN [plans |-> table, prices |-> existing, products |-> prods,
        result |-> "null"]
  ELSE IF fault = "product"
  THEN [plans |-> table, prices |-> existing, products |-> prods,
        result |-> "error"]
  ELSE
    LET plan == table[planId]
        found == FindProduct(prods, planId)
        stripeProducts ==
          IF found # 0 THEN prods ELSE Append(prods, [plan_id |-> planId])
        noMonthly == plan.stripePriceIdMonthly = NoPrice
        monthlyPriceId ==
          IF noMonthly THEN CreatedPrice(planId, "monthly", existing)
          ELSE plan.stripePriceIdMonthly
        withMonthly == IF noMonthly THEN existing \cup {monthlyPriceId}
                       ELSE existing
        noYearly == plan.stripePriceIdYearly = NoPrice
        yearlyPriceId ==
          IF noYearly THEN CreatedPrice(planId, "yearly", existing)
          ELSE plan.stripePriceIdYearly
        withYearly == IF noYearly THEN withMonthly \cup {yearlyPriceId}
                      ELSE withMonthly
    IN IF fault = "monthly" /\ noMonthly
       THEN [plans |-> table, prices |-> existing,
             products |-> stripeProducts, result |-> "error"]
       ELSE IF fault = "yearly" /\ noYearly
       THEN [plans |-> table, prices |-> withMonthly,
             products |-> stripeProducts, result |-> "error"]
       ELSE IF fault = "db"
       THEN [plans |-> table, prices |-> withYearly,
             products |-> stripeProducts, result |-> "error"]
       ELSE [plans |-> [table EXCEPT
                          ![planId].stripePriceIdMonthly = monthlyPriceId,
                          ![planId].stripePriceIdYearly = yearlyPriceId],
             prices |-> withYearly, products |-> stripeProducts,
             result |-> "synced"]

\* the results of syncAllPlansWithStripe before its loop (the buckets hold
\* plan.name; the model puts the plan's id in its place, names need not be
\* unique)
NoBuckets == [synced |-> <<>>, failed |-> <<>>, skipped |-> <<>>]

\* syncAllPlansWithStripe with results.skipped used for the plans that fail
Bucketed_FailedAsSkipped(buckets, planId, skip, result) ==
  IF skip \/ result # "synced"
  THEN [buckets EXCEPT !.skipped = Append(@, planId)]
  ELSE [buckets EXCEPT !.synced = Append(@, planId)]

\* the bucket a plan of the loop goes to: skipped without a call, failed
\* when syncPlanWithStripe threw, synced when it returned
Bucketed(buckets, planId, skip, result) ==
  IF skip THEN [buckets EXCEPT !.skipped = Append(@, planId)]
  ELSE IF result \in {"not configured", "error"}
  THEN [buckets EXCEPT !.failed = Append(@, [planId |-> planId, error |-> result])]
  ELSE [buckets EXCEPT !.synced = Append(@, planId)]

\* the loop of syncAllPlansWithStripe over the plans getActivePlans()
\* returned: a plan that had both price ids in that list is skipped, any
\* other plan is synced, with the fault faults gives for it
SyncedAll(order, table, existing, prods, faults, buckets) ==
  IF order = <<>>
  THEN [plans |-> table, prices |-> existing, products |-> prods,
        results |-> buckets]
  ELSE LET planId == Head(order)
           plan == table[planId]
           skip == plan.stripePriceIdMonthly # NoPrice
                   /\ plan.stripePriceIdYearly # NoPrice
           r == SyncedPlan(table, existing, prods, planId, TRUE, faults[planId])
       IN IF skip
          THEN SyncedAll(Tail(order), table, existing, prods, faults,
                         Bucketed(buckets, planId, TRUE, ""))
          ELSE SyncedAll(Tail(order), r.plans, r.prices, r.products, faults,
                         Bucketed(buckets, planId, FALSE, r.result))

\* syncAllPlansWithStripe(): what it leaves and what it returns
SyncedAllPlans(table, existing, prods, stripe, faults) ==
  IF ~stripe
  THEN [plans |-> table, prices |-> existing, products |-> prods,
        results |-> NoBuckets]
  ELSE SyncedAll(ActivePlans(table), table, existing, prods, faults, NoBuckets)

\* no call of the sync fails
NoFaults == [p \in DOMAIN plans |-> "none"]

\* PlansService.syncAllPlansWithStripe() of initialize()
SyncAllPlansWithStripe(stripe, faults) ==
  /\ LET r == SyncedAllPlans(plans, prices, products, stripe, faults)
     IN /\ plans' = r.plans
        /\ prices' = r.prices
        /\ products' = r.products
  /\ response' = NoResponse
  /\ UNCHANGED <<users, subscriptions, invoices, customers, stripeSubs,
                 stripeInvoices, sessions, events, emitted, req, pending>>

\* initialize() of a process with a provider client whose calls succeed
SyncAllPlans == SyncAllPlansWithStripe(TRUE, NoFaults)

(* ------------------- the plan catalog and its routes ------------------ *)
\* the slugs and the monthly amounts (in cents) of the model's requests
Slugs == {"starter", "professional"}
Amounts == {1900, 4900}

\* the plans seedDefaultPlans inserts (the model carries two of the three)
DefaultPlans ==
  <<[slug |-> "starter", monthlyPrice |-> 1900],
    [slug |-> "professional", monthlyPrice |-> 4900]>>

\* bodies of POST /plans
CreateInputs == {[slug |-> sl, monthlyPrice |-> a] : sl \in Slugs, a \in Amounts}

\* bodies of PUT /plans/:id, every field is optional: a new slug, a new
\* amount, both, or the active flag
UpdateInputs ==
  {[slug |-> sl] : sl \in Slugs} \cup {[monthlyPrice |-> a] : a \in Amounts}
    \cup {[slug |-> sl, monthlyPrice |-> a] : sl \in Slugs, a \in Amounts}
    \cup {[isActive |-> b] : b \in BOOLEAN}

\* input.field !== undefined
Has(input, field) == field \in DOMAIN input

PlanResponse(code, body) == Response("plans", code, body)

\* the unique index plans_slug_unique refuses the slug for the row planId
SlugViolation(table, slug, planId) ==
  \E p \in DOMAIN table : p # planId /\ table[p].slug = slug

\* createPlan(input, syncWithStripe): the row is inserted; then, when asked
\* to and with a provider client, the plan is synced, and a sync that throws
\* is only logged.  "error" is the insert refused by the unique index
CreatedPlan(table, existing, prods, input, syncWithStripe, stripe, fault) ==
  LET id == PlanId(Cardinality(DOMAIN table) + 1)
      plan == [PlanRow(input.slug) EXCEPT !.monthlyPrice = input.monthlyPrice]
      inserted == WithPlan(table, id, plan)
      r == SyncedPlan(inserted, existing, prods, id, TRUE, fault)
  IN IF SlugViolation(table, input.slug, id)
     THEN [plans |-> table, prices |-> existing, products |-> prods,
           result |-> "error"]
     ELSE IF syncWithStripe /\ stripe
     THEN [r EXCEPT !.result = "created"]
     ELSE [plans |-> inserted, prices |-> existing, products |-> prods,
           result |-> "created"]

RECURSIVE Seeded(_, _, _)

\* the loop of seedDefaultPlans: createPlan(plan, false) for each default
\* plan; the insert number fails throws (0: none does) and ends the loop
Seeded(table, defaults, fails) ==
  IF defaults = <<>> \/ fails = 1 THEN table
  ELSE LET r == CreatedPlan(table, {}, <<>>, Head(defaults), FALSE, FALSE, "none")
       IN IF r.result = "error" THEN table
          ELSE Seeded(r.plans, Tail(defaults), IF fails = 0 THEN 0 ELSE fails - 1)

\* seedDefaultPlans that completes a catalog that lacks default plans
SeededPlans_Missing(table, fails) ==
  IF Cardinality(DOMAIN table) >= Len(DefaultPlans) THEN table
  ELSE Seeded(table, DefaultPlans, fails)

\* seedDefaultPlans(): nothing when getAllPlans() returns a row
SeededPlans(table, fails) ==
  IF DOMAIN table # {} THEN table ELSE Seeded(table, DefaultPlans, fails)

\* PlansService.seedDefaultPlans(), from initialize() or POST /plans/seed
SeedDefaultPlans(fails) ==
  /\ plans' = SeededPlans(plans, fails)
  /\ Cardinality(DOMAIN plans') <= MaxPlans
  /\ response' = NoResponse
  /\ UNCHANGED <<users, subscriptions, invoices, customers, prices, products,
                 stripeSubs, stripeInvoices, sessions, events, emitted, req,
                 pending>>

\* the lookup of the slug in POST /plans only
SlugConflict_CreateOnly(table, slug, planId) ==
  planId = "" /\ PlanBySlug(table, slug) # ""

\* getPlanBySlug(slug) of POST /plans and PUT /plans/:id finds the row of
\* another plan (planId is "" for a plan that is being created)
SlugConflict(table, slug, planId) ==
  PlanBySlug(table, slug) \notin {"", planId}

\* POST /plans: what the request leaves and its answer
PostedPlan(table, existing, prods, input, stripe, fault) ==
  LET r == CreatedPlan(table, existing, prods, input, TRUE, stripe, fault)
  IN IF SlugConflict(table, input.slug, "")
     THEN [plans |-> table, prices |-> existing, products |-> prods,
           response |-> PlanResponse(400, "A plan with this slug already exists")]
     ELSE [plans |-> r.plans, prices |-> r.prices, products |-> r.products,
           response |-> IF r.result = "error"
                        THEN PlanResponse(500, "Failed to create plan")
                        ELSE PlanResponse(201, "plan")]

\* POST /plans and POST /admin/plans
PostPlan(input, stripe, fault) ==
  /\ Cardinality(DOMAIN plans) < MaxPlans
  /\ LET r == PostedPlan(plans, prices, products, input, stripe, fault)
     IN /\ plans' = r.plans
        /\ prices' = r.prices
        /\ products' = r.products
        /\ response' = r.response
  /\ \A q \in prices' : q.n <= MaxPrices
  /\ UNCHANGED <<users, subscriptions, invoices, customers, stripeSubs,
                 stripeInvoices, sessions, events, emitted, req, pending>>

\* updatePlan that also clears the price ids when the amount changes
UpdateData_ResetPrices(plan, input) ==
  [slug |-> IF Has(input, "slug") THEN input.slug ELSE plan.slug,
   monthlyPrice |-> IF Has(input, "monthlyPrice") THEN input.monthlyPrice
                    ELSE plan.monthlyPrice,
   isActive |-> IF Has(input, "isActive") THEN input.isActive ELSE plan.isActive,
   stripePriceIdMonthly |-> IF Has(input, "monthlyPrice") THEN NoPrice
                            ELSE plan.stripePriceIdMonthly,
   stripePriceIdYearly |-> plan.stripePriceIdYearly]

\* updatePlan(id, input): the row after the update; only the fields of the
\* input that are defined are set
UpdateData(plan, input) ==
  [slug |-> IF Has(input, "slug") THEN input.slug ELSE plan.slug,
   monthlyPrice |-> IF Has(input, "monthlyPrice") THEN input.monthlyPrice
                    ELSE plan.monthlyPrice,
   isActive |-> IF Has(input, "isActive") THEN input.isActive ELSE plan.isActive,
   stripePriceIdMonthly |-> plan.stripePriceIdMonthly,
   stripePriceIdYearly |-> plan.stripePriceIdYearly]

\* PUT /plans/:id: the table after the request and its answer (500 is the
\* update refused by the unique index)
UpdatedPlans(table, planId, input) ==
  IF Has(input, "slug") /\ SlugConflict(table, input.slug, planId)
  THEN [plans |-> table,
        response |-> PlanResponse(400, "A plan with this slug already exists")]
  ELSE IF planId \notin DOMAIN table
  THEN [plans |-> table, response |-> PlanResponse(404, "Plan not found")]
  ELSE IF SlugViolation(table, UpdateData(table[planId], input).slug, planId)
  THEN [plans |-> table, response |-> PlanResponse(500, "Failed to update plan")]
  ELSE [plans |-> [table EXCEPT ![planId] = UpdateData(@, input)],
        response |-> PlanResponse(200, "plan")]

\* PUT /plans/:id and PUT /admin/plans/:id
PutPlan(planId, input) ==
  /\ LET r == UpdatedPlans(plans, planId, input)
     IN /\ plans' = r.plans
        /\ response' = r.response
  /\ UNCHANGED <<users, subscriptions, invoices, customers, prices, products,
                 stripeSubs, stripeInvoices, sessions, events, emitted, req,
                 pending>>

\* deletePlan that removes the row
DeletedPlan_Hard(table, planId) == [p \in DOMAIN table \ {planId} |-> table[p]]

\* deletePlan(id) on an existing plan: isActive is cleared
DeletedPlan(table, planId) == [table EXCEPT ![planId].isActive = FALSE]

\* DELETE /plans/:id and DELETE /admin/plans/:id
DeletePlan(planId) ==
  /\ IF ~PlanExists(planId)
     THEN /\ response' = PlanResponse(404, "Plan not found")
          /\ UNCHANGED plans
     ELSE /\ plans' = DeletedPlan(plans, planId)
          /\ response' = PlanResponse(200, "Plan deleted")
  /\ UNCHANGED <<users, subscriptions, invoices, customers, prices, products,
                 stripeSubs, stripeInvoices, sessions, events, emitted, req,
                 pending>>

\* the answer of the sync route: 404 for null, 500 with the message of what
\* was thrown
SyncResponse(result) ==
  CASE result = "null" -> PlanResponse(404, "Plan not found")
    [] result = "not configured" -> PlanResponse(500, "Stripe is not configured")
    [] result = "error" -> PlanResponse(500, "error")
    [] OTHER -> PlanResponse(200, "Plan synced with Stripe")

\* POST /plans/:id/sync-stripe and POST /admin/plans/:id/sync-stripe
SyncPlan(planId, stripe, fault) ==
  /\ LET r == SyncedPlan(plans, prices, products, planId, stripe, fault)
     IN /\ plans' = r.plans
        /\ prices' = r.prices
        /\ products' = r.products
        /\ response' = SyncResponse(r.result)
  /\ \A q \in prices' : q.n <= MaxPrices
  /\ UNCHANGED <<users, subscriptions, invoices, customers, stripeSubs,
                 stripeInvoices, sessions, events, emitted, req, pending>>

\* the faults of one syncAllPlansWithStripe call: the sync of at most one
\* plan fails
FaultMaps ==
  {[p \in DOMAIN plans |-> IF p = q THEN f ELSE "none"] :
     q \in DOMAIN plans \cup {""}, f \in SyncFaults \ {"none"}}

(* ------------------ StripeService.createCheckoutSession --------------- *)
\* POST /stripe/create-checkout-session up to the first provider call: the
\* plan lookup and the price check of createCheckoutSession, then the read
\* of the user's customer mapping in getOrCreateCustomer
\* createCheckoutSession with getOrCreateCustomer ahead of the lookup of the
\* plan
CheckoutStart_CustomerFirst(r, userId, planId, billingInterval) ==
  /\ req[r].pc = "idle"
  /\ Len(customers) < MaxCustomers
  /\ customers' = Append(customers, [userId |-> userId, deleted |-> FALSE])
  /\ users' = [users EXCEPT ![userId] = Len(customers) + 1]
  /\ response' = CheckoutResponse(500, "Plan not found")
  /\ UNCHANGED <<plans, subscriptions, prices, products, stripeSubs, sessions,
                 events, emitted, pending, invoices, stripeInvoices, req>>

\* getOrCreateCustomer without the read of the stored mapping: every call
\* goes on to customers.create
CheckoutStart_AlwaysCreate(r, userId, planId, billingInterval) ==
  /\ req[r].pc = "idle"
  /\ IF ~PlanExists(planId)
     THEN /\ response' = CheckoutResponse(500, "Plan not found")
          /\ UNCHANGED req
     ELSE IF PriceOf(plans[planId], billingInterval) = NoPrice
     THEN /\ response' = CheckoutResponse(500, "Stripe price not configured")
          /\ UNCHANGED req
     ELSE /\ req' = [req EXCEPT ![r] =
                      [pc |-> "customer",
                       userId |-> userId, planId |-> planId,
                       billingInterval |-> billingInterval,
                       priceId |-> PriceOf(plans[planId], billingInterval),
                       customerId |-> users[userId]]]
          /\ response' = NoResponse
  /\ UNCHANGED <<plans, users, subscriptions, customers, prices, products, stripeSubs,
                 sessions, events, emitted, pending, invoices,
                 stripeInvoices>>

CheckoutStart(r, userId, planId, billingInterval) ==
  /\ req[r].pc = "idle"
  /\ IF ~PlanExists(planId)
     THEN /\ response' = CheckoutResponse(500, "Plan not found")
          /\ UNCHANGED req
     ELSE IF PriceOf(plans[planId], billingInterval) = NoPrice
     THEN /\ response' = CheckoutResponse(500, "Stripe price not configured")
          /\ UNCHANGED req
     ELSE /\ req' = [req EXCEPT ![r] =
                      [pc |-> IF users[userId] # 0 THEN "check" ELSE "customer",
                       userId |-> userId, planId |-> planId,
                       billingInterval |-> billingInterval,
                       priceId |-> PriceOf(plans[planId], billingInterval),
                       customerId |-> users[userId]]]
          /\ response' = NoResponse
  /\ UNCHANGED <<plans, users, subscriptions, customers, prices, products, stripeSubs,
                 sessions, events, emitted, pending, invoices,
                 stripeInvoices>>

\* getOrCreateCustomer after the mapping was read as empty:
\* customers.create({ metadata: { userId } }), then the mapping is stored
CheckoutCreateCustomer(r) ==
  /\ req[r].pc = "customer"
  /\ customers' = Append(customers, [userId |-> req[r].userId, deleted |-> FALSE])
  /\ users' = [users EXCEPT ![req[r].userId] = Len(customers) + 1]
  /\ req' = [req EXCEPT ![r].customerId = Len(customers) + 1, ![r].pc = "check"]
  /\ response' = NoResponse
  /\ UNCHANGED <<plans, subscriptions, prices, products, stripeSubs, sessions, events,
                 emitted, pending, invoices,
                 stripeInvoices>>

\* cleanupDuplicateSubscriptions: of the customer's active subscriptions all
\* but the most recently created one are canceled
ToCancel(customerId) ==
  LET active == ActiveSubs(customerId)
  IN IF Cardinality(active) <= 1 THEN {} ELSE active \ {Max(active)}

\* stripe.subscriptions.cancel on each subscription of toCancel
CanceledSubs(subs, toCancel) ==
  [s \in Indices(subs) |->
     IF s \in toCancel THEN [subs[s] EXCEPT !.status = "canceled"] ELSE subs[s]]

\* the customer.subscription.deleted events of these cancels; the
\* subscriptions are canceled newest first
DeletedEvents(subs, toCancel) ==
  {SubEvent(emitted + Cardinality({t \in toCancel : t >= s}),
            "customer.subscription.deleted", s,
            [subs[s] EXCEPT !.status = "canceled"]) : s \in toCancel}

\* the check made against the local table: a user whose subscription has no
\* row yet passes it
ExistingSubscription_Local(customerId) ==
  \E i \in Indices(subscriptions) :
     /\ subscriptions[i].userId = customers[customerId].userId
     /\ subscriptions[i].status = "active"

\* the listing filtered by a status no subscription of a paying customer has
ExistingSubscription_Trialing(customerId) ==
  \E s \in Indices(stripeSubs) :
     stripeSubs[s].customer = customerId /\ stripeSubs[s].status = "trialing"

\* the listing without the status filter: any subscription that has not
\* ended counts
ExistingSubscription_Live(customerId) ==
  \E s \in Indices(stripeSubs) :
     stripeSubs[s].customer = customerId /\ stripeSubs[s].status # "canceled"

\* getActiveStripeSubscription(customerId): is there an active subscription
ExistingSubscription(customerId) == ActiveSubs(customerId) # {}

\* the loop left at the first cancel that throws: the subscriptions
\* canceled are those taken before it (the loop goes newest first)
Canceled_StopAtFailure(customerId, failing) ==
  {s \in ToCancel(customerId) :
     \A t \in ToCancel(customerId) \cap failing : t < s}

\* cleanupDuplicateSubscriptions(customerId) when the cancels of `failing`
\* throw: each throw is caught inside the loop and the loop goes on, so
\* every other subscription of toCancel is canceled
Canceled(customerId, failing) == ToCancel(customerId) \ failing

\* a check that also refuses while a checkout session of the customer is
\* open, as a lock over the check and the session would
CheckoutCheckWith_Locked(r, failing) ==
  /\ req[r].pc = "check"
  /\ IF \/ ExistingSubscription(req[r].customerId)
        \/ \E sid \in Indices(sessions) :
              sessions[sid].customer = req[r].customerId
        \/ \E q \in DOMAIN req :
              q # r /\ req[q].pc = "session"
              /\ req[q].customerId = req[r].customerId
     THEN /\ req' = [req EXCEPT ![r] = IdleReq]
          /\ response' = CheckoutResponse(409, "EXISTING_SUBSCRIPTION")
     ELSE /\ req' = [req EXCEPT ![r].pc = "session"]
          /\ response' = NoResponse
  /\ UNCHANGED <<plans, users, subscriptions, customers, prices, products, sessions,
                 pending, invoices, stripeInvoices, stripeSubs, events, emitted>>

\* the existing-subscription check: with an active subscription the
\* duplicates are cleaned up and the request fails with EXISTING_SUBSCRIPTION
\* (the route answers 409); otherwise the request goes on to the session.
\* `failing` are the subscriptions whose cancel throws
CheckoutCheckWith(r, failing) ==
  /\ req[r].pc = "check"
  /\ IF ExistingSubscription(req[r].customerId)
     THEN LET canceled == Canceled(req[r].customerId, failing)
          IN /\ CanEmit(Cardinality(canceled))
             /\ stripeSubs' = CanceledSubs(stripeSubs, canceled)
             /\ events' = events \cup DeletedEvents(stripeSubs, canceled)
             /\ emitted' = emitted + Cardinality(canceled)
             /\ req' = [req EXCEPT ![r] = IdleReq]
             /\ response' = CheckoutResponse(409, "EXISTING_SUBSCRIPTION")
     ELSE /\ req' = [req EXCEPT ![r].pc = "session"]
          /\ response' = NoResponse
          /\ UNCHANGED <<stripeSubs, events, emitted>>
  /\ UNCHANGED <<plans, users, subscriptions, customers, prices, products, sessions,
                 pending, invoices,
                 stripeInvoices>>

\* the check when every cancel of the cleanup succeeds
CheckoutCheck(r) == CheckoutCheckWith(r, {})

\* checkout.sessions.create: one line item, metadata { userId, planId,
\* billingInterval }; the request answers with the session's url
CheckoutCreateSession(r) ==
  /\ req[r].pc = "session"
  /\ Len(sessions) < MaxSessions
  /\ sessions' = Append(sessions,
       [customer |-> req[r].customerId, price |-> req[r].priceId,
        metadata |-> [userId |-> req[r].userId, planId |-> req[r].planId,
                      billingInterval |-> req[r].billingInterval],
        subscription |-> 0])
  /\ req' = [req EXCEPT ![r] = IdleReq]
  /\ response' = CheckoutResponse(200, "url")
  /\ UNCHANGED <<plans, users, subscriptions, customers, prices, products, stripeSubs,
                 events, emitted, pending, invoices,
                 stripeInvoices>>

\* getOrCreateCustomer one call at a time, after the mapping was read as
\* empty: stripe.customers.create({ email, metadata: { userId } }); when the
\* provider call throws, createCheckoutSession throws and the route answers
\* 500 with the message
CustomersCreate(r, fails) ==
  /\ req[r].pc = "customer"
  /\ IF fails
     THEN /\ req' = [req EXCEPT ![r] = IdleReq]
          /\ response' = CheckoutResponse(500, "provider error")
          /\ UNCHANGED customers
     ELSE /\ Len(customers) < MaxCustomers
          /\ customers' = Append(customers,
                                 [userId |-> req[r].userId, deleted |-> FALSE])
          /\ req' = [req EXCEPT ![r].customerId = Len(customers) + 1,
                                ![r].pc = "store"]
          /\ response' = NoResponse
  /\ UNCHANGED <<plans, users, subscriptions, prices, products, stripeSubs, sessions,
                 events, emitted, pending, invoices, stripeInvoices>>

\* the mapping is kept when the user already has one
StoreCustomer_FirstWins(r) ==
  /\ req[r].pc = "store"
  /\ users' = [users EXCEPT ![req[r].userId] =
                 IF @ = 0 THEN req[r].customerId ELSE @]
  /\ req' = [req EXCEPT ![r].pc = "check"]
  /\ response' = NoResponse
  /\ UNCHANGED <<plans, subscriptions, customers, prices, products, stripeSubs,
                 sessions, events, emitted, pending, invoices, stripeInvoices>>

\* getOrCreateCustomer: db.update(users).set({ stripeCustomerId: customer.id })
\* for the user, whatever the column holds by now; the call returns the id
\* of the customer it created
StoreCustomer(r) ==
  /\ req[r].pc = "store"
  /\ users' = [users EXCEPT ![req[r].userId] = req[r].customerId]
  /\ req' = [req EXCEPT ![r].pc = "check"]
  /\ response' = NoResponse
  /\ UNCHANGED <<plans, subscriptions, customers, prices, products, stripeSubs,
                 sessions, events, emitted, pending, invoices, stripeInvoices>>

(* ------------------------- the payment provider ----------------------- *)
\* metadata of checkout sessions that were not made by createCheckoutSession
\* (a payment link, the provider's dashboard): a field is missing ("") or
\* the plan id is not one of the plans table
ForeignMetadata ==
  { [userId |-> "", planId |-> "p1", billingInterval |-> "monthly"],
    [userId |-> "u1", planId |-> "", billingInterval |-> "monthly"],
    [userId |-> "u1", planId |-> "p1", billingInterval |-> ""],
    [userId |-> "u1", planId |-> "px", billingInterval |-> "monthly"] }

\* the provider's record of a subscription a checkout session has made
NewSubscription(customerId, priceId) ==
  [customer |-> customerId, status |-> "active", price |-> priceId,
   period |-> 0, cancel_at_period_end |-> FALSE]

CompletedEvent(sid, customerId, priceId) ==
  [SubEvent(emitted + 1, "checkout.session.completed", Len(stripeSubs) + 1,
            NewSubscription(customerId, priceId))
     EXCEPT !.session = sid]

\* the customer pays on the hosted page: the provider creates the
\* subscription and sends checkout.session.completed
CompleteCheckout(sid) ==
  /\ sessions[sid].subscription = 0
  /\ CanEmit(1)
  /\ stripeSubs' = Append(stripeSubs,
       NewSubscription(sessions[sid].customer, sessions[sid].price))
  /\ sessions' = [sessions EXCEPT ![sid].subscription = Len(stripeSubs) + 1]
  /\ events' = events \cup
       {CompletedEvent(sid, sessions[sid].customer, sessions[sid].price)}
  /\ emitted' = emitted + 1
  /\ response' = NoResponse
  /\ UNCHANGED <<plans, users, subscriptions, customers, prices, products, req, pending, invoices,
                 stripeInvoices>>

\* a checkout session of the same provider account that was not made by
\* createCheckoutSession is paid
ForeignCheckout(customerId, priceId, metadata) ==
  /\ Len(sessions) < MaxSessions
  /\ priceId \in prices
  /\ CanEmit(1)
  /\ stripeSubs' = Append(stripeSubs, NewSubscription(customerId, priceId))
  /\ sessions' = Append(sessions,
       [customer |-> customerId, price |-> priceId, metadata |-> metadata,
        subscription |-> Len(stripeSubs) + 1])
  /\ events' = events \cup {CompletedEvent(Len(sessions) + 1, customerId, priceId)}
  /\ emitted' = emitted + 1
  /\ response' = NoResponse
  /\ UNCHANGED <<plans, users, subscriptions, customers, prices, products, req, pending, invoices,
                 stripeInvoices>>

\* a change of a live subscription at the provider, announced by
\* customer.subscription.updated
ProviderUpdate(s, sub) ==
  /\ stripeSubs[s].status # "canceled"
  /\ sub # stripeSubs[s]
  /\ CanEmit(1)
  /\ stripeSubs' = [stripeSubs EXCEPT ![s] = sub]
  /\ events' = events \cup
       {SubEvent(emitted + 1, "customer.subscription.updated", s, sub)}
  /\ emitted' = emitted + 1

\* prices of the provider account that no plan row holds: a yearly and a
\* weekly price made in the provider's dashboard
ForeignPrices == {PriceId("px", "yearly", 1), PriceId("px", "weekly", 1)}

\* the subscription's item is moved to another price, or removed (NoPrice),
\* outside the application
ProviderSetPrice(s, priceId) ==
  /\ ProviderUpdate(s, [stripeSubs[s] EXCEPT !.price = priceId])
  /\ response' = NoResponse
  /\ UNCHANGED <<plans, users, subscriptions, customers, prices, products, sessions,
                 req, pending, invoices,
                 stripeInvoices>>

\* payment failure / recovery: active <-> past_due
ProviderSetStatus(s, status) ==
  /\ ProviderUpdate(s, [stripeSubs[s] EXCEPT !.status = status])
  /\ response' = NoResponse
  /\ UNCHANGED <<plans, users, subscriptions, customers, prices, products, sessions,
                 req, pending, invoices,
                 stripeInvoices>>

\* renewal into the next billing period
ProviderRenew(s) ==
  /\ stripeSubs[s].period < MaxPeriod
  /\ ~stripeSubs[s].cancel_at_period_end
  /\ ProviderUpdate(s, [stripeSubs[s] EXCEPT !.period = @ + 1])
  /\ response' = NoResponse
  /\ UNCHANGED <<plans, users, subscriptions, customers, prices, products, sessions,
                 req, pending, invoices,
                 stripeInvoices>>

\* the subscription ends: customer.subscription.deleted
ProviderDelete(s) ==
  /\ stripeSubs[s].status # "canceled"
  /\ CanEmit(1)
  /\ stripeSubs' = CanceledSubs(stripeSubs, {s})
  /\ events' = events \cup DeletedEvents(stripeSubs, {s})
  /\ emitted' = emitted + 1
  /\ response' = NoResponse
  /\ UNCHANGED <<plans, users, subscriptions, customers, prices, products, sessions,
                 req, pending, invoices,
                 stripeInvoices>>

\* a customer made outside getOrCreateCustomer (the provider's dashboard, or
\* a customer the users table no longer points to): its metadata has the
\* given userId or none ("")
ProviderCreateCustomer(userId) ==
  /\ Len(customers) < MaxCustomers
  /\ customers' = Append(customers, [userId |-> userId, deleted |-> FALSE])
  /\ response' = NoResponse
  /\ UNCHANGED <<plans, users, subscriptions, invoices, prices, products, stripeSubs,
                 stripeInvoices, sessions, events, emitted, req, pending>>

\* a customer that no user is mapped to and that holds no live subscription
\* is deleted at the provider: customers.retrieve then returns
\* { deleted: true }
ProviderDeleteCustomer(c) ==
  /\ ~customers[c].deleted
  /\ \A u \in Users : users[u] # c
  /\ \A s \in Indices(stripeSubs) :
        stripeSubs[s].customer = c => stripeSubs[s].status = "canceled"
  /\ customers' = [customers EXCEPT ![c].deleted = TRUE]
  /\ response' = NoResponse
  /\ UNCHANGED <<plans, users, subscriptions, invoices, prices, products, stripeSubs,
                 stripeInvoices, sessions, events, emitted, req, pending>>

(* ----------------------- webhook handlers ----------------------------- *)
\* subscriptionData with the plan's id in the legacy plan column
SubscriptionData_PlanId(sub, planId, billingInterval) ==
  [status |-> sub.status,
   plan |-> planId,
   planId |-> planId,
   billingInterval |-> billingInterval,
   currentPeriodStart |-> ToDate(sub.period),
   currentPeriodEnd |-> ToDate(sub.period + 1),
   cancelAtPeriodEnd |-> sub.cancel_at_period_end]

\* handleCheckoutCompleted, subscriptionData: the subscription is retrieved
\* from the provider when the event is handled; plan and interval come from
\* the session's metadata
SubscriptionData(sub, planId, billingInterval) ==
  [status |-> sub.status,
   plan |-> plans[planId].slug,
   planId |-> planId,
   billingInterval |-> billingInterval,
   currentPeriodStart |-> ToDate(sub.period),
   currentPeriodEnd |-> ToDate(sub.period + 1),
   cancelAtPeriodEnd |-> sub.cancel_at_period_end]

\* the row handleCheckoutCompleted inserts
NewRow(userId, subId, data) ==
  [userId |-> userId, stripeSubscriptionId |-> subId] @@ data

\* .set(subscriptionData) on an existing row
SetData(row, data) ==
  [userId |-> row.userId, stripeSubscriptionId |-> row.stripeSubscriptionId]
    @@ data

\* the guard without the test of billingInterval
MissingMetadata_NoInterval(metadata) ==
  metadata.userId = "" \/ metadata.planId = ""

\* the metadata guard of handleCheckoutCompleted
MissingMetadata(metadata) ==
  metadata.userId = "" \/ metadata.planId = "" \/ metadata.billingInterval = ""

\* POST /stripe/webhook, checkout.session.completed: handleCheckoutCompleted
\* up to its database write.  Without complete metadata, or with a plan id
\* that is not in the plans table, the handler returns and the event is
\* acknowledged; otherwise the call is suspended holding what it has read
WebhookCheckoutCompleted(e, keep) ==
  /\ e \in events
  /\ e.type = "checkout.session.completed"
  /\ events' = IF keep THEN events ELSE events \ {e}
  /\ LET metadata == sessions[e.session].metadata
     IN IF MissingMetadata(metadata) \/ ~PlanExists(metadata.planId)
        THEN /\ response' = Received(e.type)
             /\ UNCHANGED pending
        ELSE /\ Len(pending) < MaxHandlers
             /\ pending' = Append(pending,
                  [event |-> e,
                   userId |-> metadata.userId,
                   data |-> SubscriptionData(stripeSubs[e.sub], metadata.planId,
                                             metadata.billingInterval),
                   existingSub |-> FindByStripeId(e.sub)])
             /\ response' = NoResponse
  /\ UNCHANGED <<plans, users, subscriptions, customers, prices, products, stripeSubs,
                 sessions, emitted, req, invoices,
                 stripeInvoices>>

\* the column without its unique index
UniqueViolation_NoIndex(subId) == FALSE

\* the unique index on subscriptions.stripe_subscription_id: an insert of a
\* second row for the same id throws
UniqueViolation(subId) == FindByStripeId(subId) # 0

\* the write of handleCheckoutCompleted: update of the row found before, or
\* insert.  An insert that throws is caught by the route, which still
\* answers 200
CheckoutCompletedWrite(k) ==
  /\ k \in Indices(pending)
  /\ pending[k].event.type = "checkout.session.completed"
  /\ LET h == pending[k]
     IN IF h.existingSub # 0
        THEN /\ subscriptions' =
                  [subscriptions EXCEPT ![h.existingSub] = SetData(@, h.data)]
             /\ response' = Received(h.event.type)
        ELSE IF UniqueViolation(h.event.sub)
        THEN /\ UNCHANGED subscriptions
             /\ response' = HandlerError(h.event.type)
        ELSE /\ subscriptions' =
                  Append(subscriptions, NewRow(h.userId, h.event.sub, h.data))
             /\ response' = Received(h.event.type)
  /\ pending' = RemoveAt(pending, k)
  /\ UNCHANGED <<plans, users, customers, prices, products, stripeSubs, sessions,
                 events, emitted, req, invoices,
                 stripeInvoices>>

\* handleSubscriptionUpdated: allPlans.find by the event's price id
PlanByPrice(priceId) ==
  LET found == {p \in DOMAIN plans :
                  plans[p].stripePriceIdMonthly = priceId
                  \/ plans[p].stripePriceIdYearly = priceId}
  IN IF priceId = NoPrice \/ found = {} THEN "" ELSE CHOOSE p \in found : TRUE

\* the comparison made with the local name of the interval
IntervalOf_Yearly(recurring) ==
  IF recurring = "yearly" THEN "yearly" ELSE "monthly"

\* handleSubscriptionUpdated: billing interval from the price's recurring
\* interval
IntervalOf(recurring) == IF recurring = "year" THEN "yearly" ELSE "monthly"

\* updateData with a guard on the transition: a canceled row keeps its
\* status
UpdatedRow_KeepCanceled(row, e) ==
  LET planId == PlanByPrice(e.price)
      base == [row EXCEPT !.status = IF @ = "canceled" THEN @ ELSE e.status,
                          !.currentPeriodStart = ToDate(e.period),
                          !.currentPeriodEnd = ToDate(e.period + 1),
                          !.cancelAtPeriodEnd = e.cancel,
                          !.billingInterval = IntervalOf(e.interval)]
  IN IF planId = "" THEN base
     ELSE [base EXCEPT !.plan = plans[planId].slug, !.planId = planId]

\* updateData that always carries the plan: a price of no plan clears the
\* row's plan
UpdatedRow_ClearPlan(row, e) ==
  LET planId == PlanByPrice(e.price)
      base == [row EXCEPT !.status = e.status,
                          !.currentPeriodStart = ToDate(e.period),
                          !.currentPeriodEnd = ToDate(e.period + 1),
                          !.cancelAtPeriodEnd = e.cancel,
                          !.billingInterval = IntervalOf(e.interval)]
  IN IF planId = "" THEN [base EXCEPT !.plan = "free", !.planId = ""]
     ELSE [base EXCEPT !.plan = plans[planId].slug, !.planId = planId]

\* handleSubscriptionUpdated: updateData applied to the row
UpdatedRow(row, e) ==
  LET planId == PlanByPrice(e.price)
      base == [row EXCEPT !.status = e.status,
                          !.currentPeriodStart = ToDate(e.period),
                          !.currentPeriodEnd = ToDate(e.period + 1),
                          !.cancelAtPeriodEnd = e.cancel,
                          !.billingInterval = IntervalOf(e.interval)]
  IN IF planId = "" THEN base
     ELSE [base EXCEPT !.plan = plans[planId].slug, !.planId = planId]

\* handleSubscriptionUpdated: the subscriptions table after the call; an
\* event for a subscription without a row changes nothing
SubscriptionUpdated(table, e) ==
  LET existingSub == FindRow(table, e.sub)
  IN IF existingSub = 0 THEN table
     ELSE [table EXCEPT ![existingSub] = UpdatedRow(@, e)]

\* the handler as an upsert: an event for a subscription without a local
\* row makes the row, for the user of the customer's metadata
WebhookSubscriptionUpdated_Upsert(e, keep) ==
  /\ e \in events
  /\ e.type = "customer.subscription.updated"
  /\ events' = IF keep THEN events ELSE events \ {e}
  /\ LET existingSub == FindByStripeId(e.sub)
         created == NewRow(customers[e.customer].userId, e.sub,
                           [status |-> "", plan |-> "", planId |-> "",
                            billingInterval |-> "", currentPeriodStart |-> 0,
                            currentPeriodEnd |-> 0, cancelAtPeriodEnd |-> FALSE])
     IN IF existingSub = 0
        THEN subscriptions' = Append(subscriptions, UpdatedRow(created, e))
        ELSE subscriptions' =
               [subscriptions EXCEPT ![existingSub] = UpdatedRow(@, e)]
  /\ response' = Received(e.type)
  /\ UNCHANGED <<plans, users, invoices, customers, prices, products, stripeSubs,
                 stripeInvoices, sessions, emitted, req, pending>>

\* POST /stripe/webhook, customer.subscription.updated: an event for a
\* subscription without a local row is dropped
WebhookSubscriptionUpdated(e, keep) ==
  /\ e \in events
  /\ e.type = "customer.subscription.updated"
  /\ events' = IF keep THEN events ELSE events \ {e}
  /\ subscriptions' = SubscriptionUpdated(subscriptions, e)
  /\ response' = Received(e.type)
  /\ UNCHANGED <<plans, users, customers, prices, products, stripeSubs, sessions,
                 emitted, req, pending, invoices,
                 stripeInvoices>>

\* the row reset as if the subscription had run out: the cancel flag is
\* cleared along with the status
DeletedRow_ClearFlag(row) ==
  [row EXCEPT !.status = "canceled", !.cancelAtPeriodEnd = FALSE]

\* handleSubscriptionDeleted, .set({ status: 'canceled', updatedAt })
DeletedRow(row) == [row EXCEPT !.status = "canceled"]

\* handleSubscriptionDeleted: the subscriptions table after the call
SubscriptionDeleted(table, e) ==
  LET existingSub == FindRow(table, e.sub)
  IN IF existingSub = 0 THEN table
     ELSE [table EXCEPT ![existingSub] = DeletedRow(@)]

\* POST /stripe/webhook, customer.subscription.deleted
WebhookSubscriptionDeleted(e, keep) ==
  /\ e \in events
  /\ e.type = "customer.subscription.deleted"
  /\ events' = IF keep THEN events ELSE events \ {e}
  /\ subscriptions' = SubscriptionDeleted(subscriptions, e)
  /\ response' = Received(e.type)
  /\ UNCHANGED <<plans, users, customers, prices, products, stripeSubs, sessions,
                 emitted, req, pending, invoices,
                 stripeInvoices>>

(* ----------------------- invoices -------------------------------------- *)
\* the provider's record of a new invoice of subscription s
NewInvoice(s) ==
  [customer |-> stripeSubs[s].customer, subscription |-> s,
   status |-> "draft", amount_paid |-> 0]

\* the provider issues an invoice for a subscription: invoice.created
ProviderInvoiceCreate(s) ==
  /\ Len(stripeInvoices) < MaxInvoices
  /\ CanEmit(1)
  /\ stripeInvoices' = Append(stripeInvoices, NewInvoice(s))
  /\ events' = events \cup
       {InvoiceEvent(emitted + 1, "invoice.created", Len(stripeInvoices) + 1,
                     NewInvoice(s))}
  /\ emitted' = emitted + 1
  /\ response' = NoResponse
  /\ UNCHANGED <<plans, users, subscriptions, invoices, customers, prices, products,
                 stripeSubs, sessions, req, pending>>

\* the provider's record of a new invoice of customer c that belongs to no
\* subscription (invoice.subscription is null)
OneOffInvoice(c) ==
  [customer |-> c, subscription |-> 0, status |-> "draft", amount_paid |-> 0]

\* the provider issues a one-off invoice to a customer: invoice.created
ProviderOneOffInvoice(c) ==
  /\ ~customers[c].deleted
  /\ Len(stripeInvoices) < MaxInvoices
  /\ CanEmit(1)
  /\ stripeInvoices' = Append(stripeInvoices, OneOffInvoice(c))
  /\ events' = events \cup
       {InvoiceEvent(emitted + 1, "invoice.created", Len(stripeInvoices) + 1,
                     OneOffInvoice(c))}
  /\ emitted' = emitted + 1
  /\ response' = NoResponse
  /\ UNCHANGED <<plans, users, subscriptions, invoices, customers, prices, products,
                 stripeSubs, sessions, req, pending>>

\* the provider's attempt to collect an unpaid invoice: it is paid
\* (invoice.payment_succeeded) or left open (invoice.payment_failed)
ProviderInvoiceCharge(i, paid) ==
  LET inv == IF paid
             THEN [stripeInvoices[i] EXCEPT !.status = "paid", !.amount_paid = 1]
             ELSE [stripeInvoices[i] EXCEPT !.status = "open"]
      type == IF paid THEN "invoice.payment_succeeded"
              ELSE "invoice.payment_failed"
  IN /\ stripeInvoices[i].status # "paid"
     /\ CanEmit(1)
     /\ stripeInvoices' = [stripeInvoices EXCEPT ![i] = inv]
     /\ events' = events \cup {InvoiceEvent(emitted + 1, type, i, inv)}
     /\ emitted' = emitted + 1
     /\ response' = NoResponse
     /\ UNCHANGED <<plans, users, subscriptions, invoices, customers, prices, products,
                    stripeSubs, sessions, req, pending>>

\* the invoice of a renewal of subscription s, after the attempt to collect
\* it
RenewalInvoice(s, paid) ==
  [customer |-> stripeSubs[s].customer, subscription |-> s,
   status |-> IF paid THEN "paid" ELSE "open",
   amount_paid |-> IF paid THEN 1 ELSE 0]

\* a billing period of subscription s ends: the provider issues the renewal
\* invoice and tries to collect it.  Paid, the subscription is active in its
\* next period (invoice.payment_succeeded); not paid, it is past_due
\* (invoice.payment_failed).  The other events of the renewal are not
\* delivered
ProviderRenewalPayment(s, paid) ==
  /\ stripeSubs[s].status # "canceled"
  /\ ~stripeSubs[s].cancel_at_period_end
  /\ paid => stripeSubs[s].period < MaxPeriod
  /\ Len(stripeInvoices) < MaxInvoices
  /\ CanEmit(1)
  /\ stripeSubs' =
       [stripeSubs EXCEPT ![s] =
          IF paid THEN [@ EXCEPT !.status = "active", !.period = @ + 1]
          ELSE [@ EXCEPT !.status = "past_due"]]
  /\ stripeInvoices' = Append(stripeInvoices, RenewalInvoice(s, paid))
  /\ events' = events \cup
       {InvoiceEvent(emitted + 1,
                     IF paid THEN "invoice.payment_succeeded"
                     ELSE "invoice.payment_failed",
                     Len(stripeInvoices) + 1, RenewalInvoice(s, paid))}
  /\ emitted' = emitted + 1
  /\ response' = NoResponse
  /\ UNCHANGED <<plans, users, subscriptions, invoices, customers, prices, products,
                 sessions, req, pending>>

\* db.query.invoices.findFirst({ where: eq(stripeInvoiceId, id) })
FindInvoiceRow(table, invoiceId) ==
  LET m == {i \in Indices(table) : table[i].stripeInvoiceId = invoiceId}
  IN IF m = {} THEN 0 ELSE Min(m)

FindInvoice(invoiceId) == FindInvoiceRow(invoices, invoiceId)

\* handleInvoiceCreated, the owner of the invoice: the userId of the
\* metadata of the customer retrieved from the provider; "" (the handler
\* returns) for an invoice without customer, a deleted customer or a
\* customer without userId
InvoiceOwner(e) ==
  IF e.customer = 0 THEN ""
  ELSE IF customers[e.customer].deleted THEN ""
  ELSE customers[e.customer].userId

\* invoice.status || fallback
StatusOr(status, fallback) == IF status = "" THEN fallback ELSE status

\* the row made with the fixed status of a new invoice
InvoiceRow_Draft(userId, e) ==
  [userId |-> userId, stripeInvoiceId |-> e.invoice,
   amountPaid |-> e.amount_paid, status |-> "draft"]

\* the row handleInvoiceCreated inserts: amount and status are the event's
InvoiceRow(userId, e) ==
  [userId |-> userId, stripeInvoiceId |-> e.invoice,
   amountPaid |-> e.amount_paid, status |-> StatusOr(e.status, "draft")]

\* handleInvoiceCreated: the invoices table after the call; an invoice that
\* has a row gets no second one
InvoiceCreated(table, e) ==
  IF InvoiceOwner(e) = "" \/ FindInvoiceRow(table, e.invoice) # 0 THEN table
  ELSE Append(table, InvoiceRow(InvoiceOwner(e), e))

\* POST /stripe/webhook, invoice.created
WebhookInvoiceCreated(e, keep) ==
  /\ e \in events
  /\ e.type = "invoice.created"
  /\ events' = IF keep THEN events ELSE events \ {e}
  /\ invoices' = InvoiceCreated(invoices, e)
  /\ response' = Received(e.type)
  /\ UNCHANGED <<plans, users, subscriptions, customers, prices, products, stripeSubs,
                 stripeInvoices, sessions, emitted, req, pending>>

\* handleInvoicePaymentSucceeded, .set on the invoice's row
PaidInvoiceRow(row, e) ==
  [row EXCEPT !.status = "paid", !.amountPaid = e.amount_paid]

\* handleInvoicePaymentSucceeded, the invoice: its row is set to paid, or
\* made by handleInvoiceCreated
InvoicePaid(table, e) ==
  LET existingInvoice == FindInvoiceRow(table, e.invoice)
  IN IF existingInvoice = 0 THEN InvoiceCreated(table, e)
     ELSE [table EXCEPT ![existingInvoice] = PaidInvoiceRow(@, e)]

\* the refresh of the status alone
PaymentSucceededRow_StatusOnly(row, subscription) ==
  [row EXCEPT !.status = subscription.status]

\* handleInvoicePaymentSucceeded, .set on the subscription's row: status,
\* period and cancel flag of the subscription retrieved from the provider
PaymentSucceededRow(row, subscription) ==
  [row EXCEPT !.status = subscription.status,
              !.currentPeriodStart = ToDate(subscription.period),
              !.currentPeriodEnd = ToDate(subscription.period + 1),
              !.cancelAtPeriodEnd = subscription.cancel_at_period_end]

\* handleInvoicePaymentSucceeded, the invoice's subscription: retrieved from
\* the provider; its row, if it has one, is refreshed.  A retrieve that
\* throws (retrieved = FALSE) is caught and logged
SubscriptionRefreshed(table, e, retrieved) ==
  LET existingSub == FindRow(table, e.sub)
  IN IF e.sub = 0 \/ ~retrieved \/ existingSub = 0 THEN table
     ELSE [table EXCEPT
             ![existingSub] = PaymentSucceededRow(@, stripeSubs[e.sub])]

\* POST /stripe/webhook, invoice.payment_succeeded
WebhookInvoicePaymentSucceeded(e, keep, retrieved) ==
  /\ e \in events
  /\ e.type = "invoice.payment_succeeded"
  /\ events' = IF keep THEN events ELSE events \ {e}
  /\ invoices' = InvoicePaid(invoices, e)
  /\ subscriptions' = SubscriptionRefreshed(subscriptions, e, retrieved)
  /\ response' = Received(e.type)
  /\ UNCHANGED <<plans, users, customers, prices, products, stripeSubs, stripeInvoices,
                 sessions, emitted, req, pending>>

\* handleInvoicePaymentFailed, .set on the invoice's row:
\* status: invoice.status || 'open'
FailedInvoiceRow(row, e) == [row EXCEPT !.status = StatusOr(e.status, "open")]

\* handleInvoicePaymentFailed, the invoice: its row gets the event's status,
\* or is made by handleInvoiceCreated
InvoiceFailed(table, e) ==
  LET existingInvoice == FindInvoiceRow(table, e.invoice)
  IN IF existingInvoice = 0 THEN InvoiceCreated(table, e)
     ELSE [table EXCEPT ![existingInvoice] = FailedInvoiceRow(@, e)]

\* the update of handleInvoicePaymentSucceeded used for a failed payment
PaymentFailedRow_Refresh(row, subscription) ==
  [row EXCEPT !.status = subscription.status,
              !.currentPeriodStart = ToDate(subscription.period),
              !.currentPeriodEnd = ToDate(subscription.period + 1),
              !.cancelAtPeriodEnd = subscription.cancel_at_period_end]

\* handleInvoicePaymentFailed, .set on the subscription's row: the status of
\* the subscription retrieved from the provider
PaymentFailedRow(row, subscription) ==
  [row EXCEPT !.status = subscription.status]

\* handleInvoicePaymentFailed, the invoice's subscription
SubscriptionFailed(table, e, retrieved) ==
  LET existingSub == FindRow(table, e.sub)
  IN IF e.sub = 0 \/ ~retrieved \/ existingSub = 0 THEN table
     ELSE [table EXCEPT
             ![existingSub] = PaymentFailedRow(@, stripeSubs[e.sub])]

\* POST /stripe/webhook, invoice.payment_failed
WebhookInvoicePaymentFailed(e, keep, retrieved) ==
  /\ e \in events
  /\ e.type = "invoice.payment_failed"
  /\ events' = IF keep THEN events ELSE events \ {e}
  /\ invoices' = InvoiceFailed(invoices, e)
  /\ subscriptions' = SubscriptionFailed(subscriptions, e, retrieved)
  /\ response' = Received(e.type)
  /\ UNCHANGED <<plans, users, customers, prices, products, stripeSubs, stripeInvoices,
                 sessions, emitted, req, pending>>

(* ------------------ a delivery handled without interruption ----------- *)
\* handleCheckoutCompleted run from its first line to its last: the
\* subscriptions table after the call
CheckoutCompleted(table, e) ==
  LET metadata == sessions[e.session].metadata
      existingSub == FindRow(table, e.sub)
      data == SubscriptionData(stripeSubs[e.sub], metadata.planId,
                               metadata.billingInterval)
  IN IF MissingMetadata(metadata) \/ ~PlanExists(metadata.planId) THEN table
     ELSE IF existingSub # 0
     THEN [table EXCEPT ![existingSub] = SetData(@, data)]
     ELSE Append(table, NewRow(metadata.userId, e.sub, data))

\* POST /stripe/webhook, the switch on event.type: the subscriptions table
\* after event e has been handled, the provider answering every call
HandledSubscriptions(table, e) ==
  CASE e.type = "checkout.session.completed" -> CheckoutCompleted(table, e)
    [] e.type = "customer.subscription.updated" -> SubscriptionUpdated(table, e)
    [] e.type = "customer.subscription.deleted" -> SubscriptionDeleted(table, e)
    [] e.type = "invoice.payment_succeeded" ->
         SubscriptionRefreshed(table, e, TRUE)
    [] e.type = "invoice.payment_failed" -> SubscriptionFailed(table, e, TRUE)
    [] OTHER -> table

\* the same for the invoices table
HandledInvoices(table, e) ==
  CASE e.type = "invoice.created" -> InvoiceCreated(table, e)
    [] e.type = "invoice.payment_succeeded" -> InvoicePaid(table, e)
    [] e.type = "invoice.payment_failed" -> InvoiceFailed(table, e)
    [] OTHER -> table

(* ------------- the invoice handlers, one database call at a time ------- *)
\* the unique index on invoices.stripe_invoice_id left out
InvoiceUniqueViolation_NoIndex(invoiceId) == FALSE

\* the unique index on invoices.stripe_invoice_id: an insert of a second row
\* for the same id throws
InvoiceUniqueViolation(invoiceId) == FindInvoice(invoiceId) # 0

\* a call of a handler that is suspended between two database calls: "found"
\* after the lookup of handleInvoicePaymentSucceeded / Failed (existingInvoice
\* is what it found), "insert" after the lookup of handleInvoiceCreated found
\* no row (owner is the userId it read from the customer)
InvoiceCall(e, pc, existingInvoice, owner) ==
  [event |-> e, pc |-> pc, existingInvoice |-> existingInvoice, owner |-> owner]

\* the second half of handleInvoicePaymentSucceeded / Failed: the invoice's
\* subscription
PaymentSubscriptions(e, retrieved) ==
  IF e.type = "invoice.payment_succeeded"
  THEN SubscriptionRefreshed(subscriptions, e, retrieved)
  ELSE SubscriptionFailed(subscriptions, e, retrieved)

\* invoice.created, handleInvoiceCreated up to its insert: without an owner
\* or with a row in place the handler returns; otherwise it goes on to insert
InvoiceCreatedRead(e, keep) ==
  /\ e \in events
  /\ e.type = "invoice.created"
  /\ Len(pending) < MaxHandlers
  /\ events' = IF keep THEN events ELSE events \ {e}
  /\ IF InvoiceOwner(e) = "" \/ FindInvoice(e.invoice) # 0
     THEN /\ response' = Received(e.type)
          /\ UNCHANGED pending
     ELSE /\ pending' = Append(pending,
                               InvoiceCall(e, "insert", 0, InvoiceOwner(e)))
          /\ response' = NoResponse
  /\ UNCHANGED <<plans, users, subscriptions, invoices, customers, prices, products,
                 stripeSubs, stripeInvoices, sessions, emitted, req>>

\* invoice.payment_succeeded / invoice.payment_failed: the handler's first
\* lookup of the invoice's row
InvoicePaymentRead(e, keep) ==
  /\ e \in events
  /\ e.type \in {"invoice.payment_succeeded", "invoice.payment_failed"}
  /\ Len(pending) < MaxHandlers
  /\ events' = IF keep THEN events ELSE events \ {e}
  /\ pending' = Append(pending,
                       InvoiceCall(e, "found", FindInvoice(e.invoice), ""))
  /\ response' = NoResponse
  /\ UNCHANGED <<plans, users, subscriptions, invoices, customers, prices, products,
                 stripeSubs, stripeInvoices, sessions, emitted, req>>

\* after the first lookup: the row it found is updated; when it found none,
\* handleInvoiceCreated is called and reads the customer and the table
\* again.  The handler then turns to the invoice's subscription, unless an
\* insert is still to come
InvoicePaymentWrite(k, retrieved) ==
  /\ k \in Indices(pending)
  /\ pending[k].event.type \in
       {"invoice.payment_succeeded", "invoice.payment_failed"}
  /\ pending[k].pc = "found"
  /\ LET h == pending[k]
         e == h.event
         done == /\ subscriptions' = PaymentSubscriptions(e, retrieved)
                 /\ pending' = RemoveAt(pending, k)
                 /\ response' = Received(e.type)
     IN IF h.existingInvoice # 0
        THEN /\ invoices' =
                  [invoices EXCEPT ![h.existingInvoice] =
                     IF e.type = "invoice.payment_succeeded"
                     THEN PaidInvoiceRow(@, e) ELSE FailedInvoiceRow(@, e)]
             /\ done
        ELSE IF InvoiceOwner(e) = "" \/ FindInvoice(e.invoice) # 0
        THEN /\ UNCHANGED invoices
             /\ done
        ELSE /\ pending' = [pending EXCEPT ![k].pc = "insert",
                                           ![k].owner = InvoiceOwner(e)]
             /\ response' = NoResponse
             /\ UNCHANGED <<invoices, subscriptions>>
  /\ UNCHANGED <<plans, users, customers, prices, products, stripeSubs, stripeInvoices,
                 sessions, events, emitted, req>>

\* the insert of handleInvoiceCreated; an insert that throws is caught and
\* logged by handleInvoiceCreated itself.  A payment handler then turns to
\* the invoice's subscription
InvoiceInsert(k, retrieved) ==
  /\ k \in Indices(pending)
  /\ pending[k].event.type \in
       {"invoice.created", "invoice.payment_succeeded",
        "invoice.payment_failed"}
  /\ pending[k].pc = "insert"
  /\ LET h == pending[k]
         e == h.event
     IN /\ invoices' = IF InvoiceUniqueViolation(e.invoice) THEN invoices
                       ELSE Append(invoices, InvoiceRow(h.owner, e))
        /\ subscriptions' = IF e.type = "invoice.created" THEN subscriptions
                            ELSE PaymentSubscriptions(e, retrieved)
        /\ response' = Received(e.type)
  /\ pending' = RemoveAt(pending, k)
  /\ UNCHANGED <<plans, users, customers, prices, products, stripeSubs, stripeInvoices,
                 sessions, events, emitted, req>>

(* ------------------------ POST /stripe/webhook ------------------------ *)
\* the event kinds the switch of the route has a handler for
HandledTypes ==
  {"checkout.session.completed", "customer.subscription.updated",
   "customer.subscription.deleted", "invoice.created",
   "invoice.payment_succeeded", "invoice.payment_failed"}

\* kinds without a handler: one the switch names and only logs, one that
\* falls to its default
OtherTypes == {"invoice.finalized", "charge.succeeded"}

\* an event of a kind without a handler (its object is not looked at)
OtherEvent(id, type) ==
  [id |-> id, type |-> type, session |-> 0, sub |-> 0, status |-> "",
   period |-> 0, cancel |-> FALSE, price |-> NoPrice, interval |-> "",
   customer |-> 0, invoice |-> 0, amount_paid |-> 0]

\* the provider reports something the application has no handler for
ProviderOtherEvent(type) ==
  /\ CanEmit(1)
  /\ events' = events \cup {OtherEvent(emitted + 1, type)}
  /\ emitted' = emitted + 1
  /\ response' = NoResponse
  /\ UNCHANGED <<plans, users, subscriptions, invoices, customers, prices, products,
                 stripeSubs, stripeInvoices, sessions, req, pending>>

\* the secret the provider signs the endpoint's deliveries with; a
\* signature is represented by the secret it was made with
EndpointSecret == "whsec"

\* STRIPE_WEBHOOK_SECRET of the process that serves the request: unset, the
\* endpoint's secret, or another one (a rotated or mistyped secret)
WebhookSecrets == {"", EndpointSecret, "whsec_old"}

\* a request that does not come from the provider: it asks to end the first
\* subscription
ForgedEvent ==
  [OtherEvent(0, "customer.subscription.deleted") EXCEPT !.sub = 1,
                                                         !.status = "canceled"]

\* the requests that can reach the route: the provider's deliveries, signed,
\* and forged requests, without signature or with one made without the
\* endpoint's secret
Deliveries ==
  {[event |-> e, sig |-> EndpointSecret] : e \in events}
    \cup {[event |-> ForgedEvent, sig |-> sig] : sig \in {"", "forged"}}

\* stripe.webhooks.constructEvent(req.body, sig, webhookSecret) returns the
\* event (it throws otherwise)
ConstructEvent(sig, webhookSecret) == sig = webhookSecret

\* the route with verification only where a secret is configured
WebhookRejection_NoSecret(stripe, sig, webhookSecret) ==
  IF ~stripe THEN Response("webhook", 503, "Stripe is not configured")
  ELSE IF sig = "" THEN Response("webhook", 400, "Missing signature")
  ELSE IF webhookSecret = "" THEN NoResponse
  ELSE IF ~ConstructEvent(sig, webhookSecret)
  THEN Response("webhook", 400, "Webhook Error")
  ELSE NoResponse

\* the route up to the switch: the response that ends the request there,
\* NoResponse when the request goes on to the switch.  stripe is whether
\* the process has a provider client (STRIPE_SECRET_KEY is set)
WebhookRejection(stripe, sig, webhookSecret) ==
  IF ~stripe THEN Response("webhook", 503, "Stripe is not configured")
  ELSE IF sig = "" THEN Response("webhook", 400, "Missing signature")
  ELSE IF webhookSecret = ""
  THEN Response("webhook", 400, "Webhook secret not configured")
  ELSE IF ~ConstructEvent(sig, webhookSecret)
  THEN Response("webhook", 400, "Webhook Error")
  ELSE NoResponse

\* the request is one the route has to dispatch: the process has a provider
\* client and a secret, and the signature was made with that secret
Verified(d, stripe, webhookSecret) ==
  stripe /\ d.sig # "" /\ webhookSecret # "" /\ d.sig = webhookSecret

\* what can go wrong while an event is handled: nothing, the handler's first
\* call throws, or the retrieve of the invoice's subscription throws
Faults == {"none", "throws", "retrieve"}

\* the handlers in which a failing database or provider call is not caught
\* by the handler itself (handleInvoiceCreated catches its own)
ThrowingTypes == HandledTypes \ {"invoice.created"}

\* the first database or provider call of the handler of e throws before
\* anything is written: the catch of the route answers 200
HandlerThrows(e, keep) ==
  /\ e \in events
  /\ e.type \in ThrowingTypes
  /\ events' = IF keep THEN events ELSE events \ {e}
  /\ response' = HandlerError(e.type)
  /\ UNCHANGED <<plans, users, subscriptions, invoices, customers, prices, products,
                 stripeSubs, stripeInvoices, sessions, emitted, req, pending>>

\* the default of the switch answering as for a malformed request
Unhandled_Error(e, keep) ==
  /\ e \in events
  /\ e.type \notin HandledTypes
  /\ events' = IF keep THEN events ELSE events \ {e}
  /\ response' = Response(e.type, 400, "Unhandled event type")
  /\ UNCHANGED <<plans, users, subscriptions, invoices, customers, prices, products,
                 stripeSubs, stripeInvoices, sessions, emitted, req, pending>>

\* the cases of the switch that only log, and its default
Unhandled(e, keep) ==
  /\ e \in events
  /\ e.type \notin HandledTypes
  /\ events' = IF keep THEN events ELSE events \ {e}
  /\ response' = Received(e.type)
  /\ UNCHANGED <<plans, users, subscriptions, invoices, customers, prices, products,
                 stripeSubs, stripeInvoices, sessions, emitted, req, pending>>

\* the switch on event.type.  fault is what goes wrong while the event is
\* handled: nothing ("none"), the handler's first call throws ("throws"), or
\* the retrieve of the invoice's subscription throws ("retrieve")
Dispatch(e, keep, fault) ==
  IF fault = "throws" /\ e.type \in ThrowingTypes THEN HandlerThrows(e, keep)
  ELSE CASE e.type = "checkout.session.completed" ->
              pending = <<>> /\ WebhookCheckoutCompleted(e, keep)
         [] e.type = "customer.subscription.updated" ->
              WebhookSubscriptionUpdated(e, keep)
         [] e.type = "customer.subscription.deleted" ->
              WebhookSubscriptionDeleted(e, keep)
         [] e.type = "invoice.created" -> WebhookInvoiceCreated(e, keep)
         [] e.type = "invoice.payment_succeeded" ->
              WebhookInvoicePaymentSucceeded(e, keep, fault # "retrieve")
         [] e.type = "invoice.payment_failed" ->
              WebhookInvoicePaymentFailed(e, keep, fault # "retrieve")
         [] OTHER -> Unhandled(e, keep)

\* POST /stripe/webhook: a request is answered before the switch, or its
\* event is dispatched
StripeWebhook(d, keep, stripe, webhookSecret, fault) ==
  LET rejection == WebhookRejection(stripe, d.sig, webhookSecret)
  IN IF rejection # NoResponse
     THEN /\ response' = rejection
          /\ UNCHANGED <<plans, users, subscriptions, invoices, customers,
                         prices, products, stripeSubs, stripeInvoices, sessions, events,
                         emitted, req, pending>>
     ELSE Dispatch(d.event, keep, fault)

(* ---------------- subscription and plan-change routes ----------------- *)
\* stripe.subscriptions.update on subscription s: the provider refuses to
\* change a canceled subscription (the call throws, the route answers 500);
\* a change is announced by customer.subscription.updated
UpdateFails(s) == stripeSubs[s].status = "canceled"

ProviderApply(s, sub) ==
  IF sub = stripeSubs[s]
  THEN UNCHANGED <<stripeSubs, events, emitted>>
  ELSE ProviderUpdate(s, sub)

\* the row written before the provider is called: a provider call that
\* throws leaves the row with the new flag
SetCancelAtPeriodEnd_WriteFirst(route, subscription, flag) ==
  LET s == subscriptions[subscription].stripeSubscriptionId
  IN /\ subscriptions' =
          [subscriptions EXCEPT ![subscription].cancelAtPeriodEnd = flag]
     /\ IF UpdateFails(s)
        THEN /\ response' = Response(route, 500, "Failed")
             /\ UNCHANGED <<stripeSubs, events, emitted>>
        ELSE /\ ProviderApply(s, [stripeSubs[s] EXCEPT !.cancel_at_period_end = flag])
             /\ response' = Response(route, 200, "ok")

\* a cancel that also ends the row at once: the status is written with the
\* flag
SetCancelAtPeriodEnd_Status(route, subscription, flag) ==
  LET s == subscriptions[subscription].stripeSubscriptionId
  IN IF UpdateFails(s)
     THEN /\ response' = Response(route, 500, "Failed")
          /\ UNCHANGED <<subscriptions, stripeSubs, events, emitted>>
     ELSE /\ ProviderApply(s, [stripeSubs[s] EXCEPT !.cancel_at_period_end = flag])
          /\ subscriptions' =
               [subscriptions EXCEPT
                  ![subscription].cancelAtPeriodEnd = flag,
                  ![subscription].status = IF flag THEN "canceled" ELSE "active"]
          /\ response' = Response(route, 200, "ok")

\* POST /subscription/cancel and POST /subscription/reactivate on the
\* user's first row: the flag is set at the provider and then in the row
SetCancelAtPeriodEnd(route, subscription, flag) ==
  LET s == subscriptions[subscription].stripeSubscriptionId
  IN IF UpdateFails(s)
     THEN /\ response' = Response(route, 500, "Failed")
          /\ UNCHANGED <<subscriptions, stripeSubs, events, emitted>>
     ELSE /\ ProviderApply(s, [stripeSubs[s] EXCEPT !.cancel_at_period_end = flag])
          /\ subscriptions' =
               [subscriptions EXCEPT ![subscription].cancelAtPeriodEnd = flag]
          /\ response' = Response(route, 200, "ok")

Cancel(userId) ==
  /\ IF FindByUser(userId) = 0
     THEN /\ response' = Response("cancel", 404, "No active subscription found")
          /\ UNCHANGED <<subscriptions, stripeSubs, events, emitted>>
     ELSE SetCancelAtPeriodEnd("cancel", FindByUser(userId), TRUE)
  /\ UNCHANGED <<plans, users, customers, prices, products, sessions, req, pending, invoices,
                 stripeInvoices>>

Reactivate(userId) ==
  /\ IF FindByUser(userId) = 0
     THEN /\ response' = Response("reactivate", 404, "No subscription found")
          /\ UNCHANGED <<subscriptions, stripeSubs, events, emitted>>
     ELSE IF ~subscriptions[FindByUser(userId)].cancelAtPeriodEnd
     THEN /\ response' =
               Response("reactivate", 400, "Subscription is not set to cancel")
          /\ UNCHANGED <<subscriptions, stripeSubs, events, emitted>>
     ELSE SetCancelAtPeriodEnd("reactivate", FindByUser(userId), FALSE)
  /\ UNCHANGED <<plans, users, customers, prices, products, sessions, req, pending, invoices,
                 stripeInvoices>>

\* POST /subscription/change-plan: the price of the subscription of the
\* user's first row is replaced at the provider; the row gets planId and
\* billingInterval
ChangePlan(userId, planId, billingInterval) ==
  LET route == "subscription/change-plan"
      subscription == FindByUser(userId)
      s == subscriptions[subscription].stripeSubscriptionId
      newPriceId == PriceOf(plans[planId], billingInterval)
  IN /\ IF subscription = 0
        THEN /\ response' = Response(route, 404, "No active subscription found")
             /\ UNCHANGED <<subscriptions, stripeSubs, events, emitted>>
        ELSE IF ~PlanExists(planId)
        THEN /\ response' = Response(route, 404, "Plan not found")
             /\ UNCHANGED <<subscriptions, stripeSubs, events, emitted>>
        ELSE IF newPriceId = NoPrice
        THEN /\ response' = Response(route, 400, "Plan is not available for purchase")
             /\ UNCHANGED <<subscriptions, stripeSubs, events, emitted>>
        ELSE IF UpdateFails(s)
        THEN /\ response' = Response(route, 500, "Failed")
             /\ UNCHANGED <<subscriptions, stripeSubs, events, emitted>>
        ELSE /\ ProviderApply(s, [stripeSubs[s] EXCEPT !.price = newPriceId])
             /\ subscriptions' =
                  [subscriptions EXCEPT
                     ![subscription].planId = planId,
                     ![subscription].billingInterval = billingInterval]
             /\ response' = Response(route, 200, "ok")
     /\ UNCHANGED <<plans, users, customers, prices, products, sessions, req, pending, invoices,
                 stripeInvoices>>

\* POST /stripe/change-plan: updateSubscriptionPlan on the customer's active
\* subscription (the first of the provider's list, newest first); the row of
\* that subscription, if there is one, gets plan, planId, billingInterval,
\* status and currentPeriodEnd
StripeChangePlan(userId, planId, billingInterval) ==
  LET route == "stripe/change-plan"
      customerId == users[userId]
      priceId == PriceOf(plans[planId], billingInterval)
      s == Max(ActiveSubs(customerId))
      updated == [stripeSubs[s] EXCEPT !.price = priceId]
      localSub == FindByStripeId(s)
  IN /\ IF customerId = 0
        THEN /\ response' = Response(route, 400, "No billing account found")
             /\ UNCHANGED <<subscriptions, stripeSubs, events, emitted>>
        ELSE IF ~PlanExists(planId)
        THEN /\ response' = Response(route, 404, "Plan not found")
             /\ UNCHANGED <<subscriptions, stripeSubs, events, emitted>>
        ELSE IF priceId = NoPrice
        THEN /\ response' = Response(route, 400, "Plan not configured in Stripe")
             /\ UNCHANGED <<subscriptions, stripeSubs, events, emitted>>
        ELSE IF ActiveSubs(customerId) = {}
        THEN /\ response' = Response(route, 400, "NO_SUBSCRIPTION")
             /\ UNCHANGED <<subscriptions, stripeSubs, events, emitted>>
        ELSE /\ ProviderApply(s, updated)
             /\ IF localSub = 0
                THEN UNCHANGED subscriptions
                ELSE subscriptions' =
                       [subscriptions EXCEPT
                          ![localSub].plan = plans[planId].slug,
                          ![localSub].planId = planId,
                          ![localSub].billingInterval = billingInterval,
                          ![localSub].status = updated.status,
                          ![localSub].currentPeriodEnd =
                             ToDate(updated.period + 1)]
             /\ response' = Response(route, 200, "ok")
     /\ UNCHANGED <<plans, users, customers, prices, products, sessions, req, pending, invoices,
                 stripeInvoices>>

(* --------------------------- specifications --------------------------- *)
\* the checkout requests up to the session, the provider's changes of a
\* subscription's status and the write of handleCheckoutCompleted; with the
\* deliveries of the events of those changes
CheckoutFlow ==
  \/ SyncAllPlans
  \/ \E r \in Requests, u \in Users, o \in Orders : CheckoutStart(r, u, o[1], o[2])
  \/ \E r \in Requests : CheckoutCreateCustomer(r)
  \/ \E r \in Requests : CheckoutCheck(r)
  \/ \E sid \in Indices(sessions) : CompleteCheckout(sid)
  \/ \E s \in Indices(stripeSubs), st \in {"active", "past_due"} :
        ProviderSetStatus(s, st)
  \/ \E s \in Indices(stripeSubs) : ProviderDelete(s)
  \/ \E k \in Indices(pending) : CheckoutCompletedWrite(k)

Checkout ==
  \/ CheckoutFlow
  \/ \E e \in events, keep \in BOOLEAN : WebhookSubscriptionUpdated(e, keep)
  \/ \E e \in events, keep \in BOOLEAN : WebhookSubscriptionDeleted(e, keep)

\* one checkout session is made, by createCheckoutSession or outside it
OneSession ==
  \/ \E r \in Requests : sessions = <<>> /\ CheckoutCreateSession(r)
  \/ \E c \in Indices(customers), md \in ForeignMetadata :
        sessions = <<>> /\ ForeignCheckout(c, PriceId("p1", "monthly", 1), md)

\* checkout.session.completed is handled by one call at a time
OneHandler ==
  \E e \in events, keep \in BOOLEAN :
     pending = <<>> /\ WebhookCheckoutCompleted(e, keep)

\* renewals and the routes that change an existing subscription
Lifecycle ==
  \/ \E s \in Indices(stripeSubs) : ProviderRenew(s)
  \/ \E u \in Users : Cancel(u)
  \/ \E u \in Users : Reactivate(u)
  \/ \E u \in Users, p \in PlanIds, i \in Intervals : ChangePlan(u, p, i)
  \/ \E u \in Users, p \in PlanIds, i \in Intervals : StripeChangePlan(u, p, i)

\* the invoices of a subscription and their webhook events
Invoicing ==
  \/ \E s \in Indices(stripeSubs) : ProviderInvoiceCreate(s)
  \/ \E i \in Indices(stripeInvoices), paid \in BOOLEAN :
        ProviderInvoiceCharge(i, paid)
  \/ \E e \in events, keep \in BOOLEAN : WebhookInvoiceCreated(e, keep)
  \/ \E e \in events, keep \in BOOLEAN, retrieved \in BOOLEAN :
        WebhookInvoicePaymentSucceeded(e, keep, retrieved)
  \/ \E e \in events, keep \in BOOLEAN, retrieved \in BOOLEAN :
        WebhookInvoicePaymentFailed(e, keep, retrieved)

\* Every operation, over the life of the subscription of one checkout
\* session.
Next ==
  \/ Checkout
  \/ OneSession
  \/ OneHandler
  \/ Lifecycle
  \/ Invoicing

Spec == Init /\ [][Next]_vars

\* Checkouts and re-subscriptions: up to MaxSessions checkout sessions, the
\* subscriptions changing at the provider by payment failure, recovery and
\* cancellation only.
NextCheckout ==
  \/ Checkout
  \/ OneHandler
  \/ \E r \in Requests : CheckoutCreateSession(r)
  \/ \E c \in Indices(customers), md \in ForeignMetadata :
        ForeignCheckout(c, PriceId("p1", "monthly", 1), md)

SpecCheckout == Init /\ [][NextCheckout]_vars

\* Concurrent deliveries: up to MaxHandlers calls of handleCheckoutCompleted
\* in progress at once, for the events of one checkout session.
NextDelivery ==
  \/ Checkout
  \/ OneSession
  \/ \E e \in events, keep \in BOOLEAN : WebhookCheckoutCompleted(e, keep)

SpecDelivery == Init /\ [][NextDelivery]_vars

\* The plan catalog from an empty plans table: seeding, the plan routes and
\* the syncs, in processes with and without a provider client and with the
\* sync's calls failing (a fault plays no part without a client).
NextCatalog ==
  \/ \E fails \in 0..Len(DefaultPlans) : SeedDefaultPlans(fails)
  \/ \E input \in CreateInputs, stripe \in BOOLEAN, fault \in SyncFaults :
        (stripe \/ fault = "none") /\ PostPlan(input, stripe, fault)
  \/ \E p \in DOMAIN plans \cup {"px"}, input \in UpdateInputs : PutPlan(p, input)
  \/ \E p \in DOMAIN plans \cup {"px"} : DeletePlan(p)
  \/ \E p \in DOMAIN plans \cup {"px"}, stripe \in BOOLEAN, fault \in SyncFaults :
        (stripe \/ fault = "none") /\ SyncPlan(p, stripe, fault)
  \/ \E stripe \in BOOLEAN, faults \in FaultMaps :
        /\ stripe \/ faults = NoFaults
        /\ SyncAllPlansWithStripe(stripe, faults)
        /\ \A q \in prices' : q.n <= MaxPrices

SpecCatalog == InitCatalog /\ [][NextCatalog]_vars

\* Catalog edits under subscriptions: the subscription of one checkout
\* session, the two change-plan routes, and the renaming, soft deletion and
\* reactivation of the seeded plans.
NextPlanAdmin ==
  \/ SyncAllPlans
  \/ \E r \in Requests, u \in Users : CheckoutStart(r, u, "p1", "monthly")
  \/ \E r \in Requests : CheckoutCreateCustomer(r)
  \/ \E r \in Requests : CheckoutCheck(r)
  \/ \E r \in Requests : sessions = <<>> /\ CheckoutCreateSession(r)
  \/ \E sid \in Indices(sessions) : CompleteCheckout(sid)
  \/ OneHandler
  \/ \E k \in Indices(pending) : CheckoutCompletedWrite(k)
  \/ \E e \in events, keep \in BOOLEAN : WebhookSubscriptionUpdated(e, keep)
  \/ \E u \in Users, p \in PlanIds, i \in Intervals : ChangePlan(u, p, i)
  \/ \E u \in Users, p \in PlanIds, i \in Intervals : StripeChangePlan(u, p, i)
  \/ \E p \in DOMAIN plans \cup {"px"} : DeletePlan(p)
  \/ \E p \in DOMAIN plans \cup {"px"}, input \in UpdateInputs :
        ~Has(input, "monthlyPrice") /\ PutPlan(p, input)

SpecPlanAdmin == Init /\ [][NextPlanAdmin]_vars

\* The webhook endpoint: every request that reaches POST /stripe/webhook,
\* from the provider or not, goes through the route; the events are those of
\* the subscription of one checkout session and of its invoice.  What plays
\* no part in a request that is answered before the switch is fixed.
NextWebhook ==
  \/ SyncAllPlans
  \/ \E r \in Requests, u \in Users : CheckoutStart(r, u, "p1", "monthly")
  \/ \E r \in Requests : CheckoutCreateCustomer(r)
  \/ \E r \in Requests : CheckoutCheck(r)
  \/ \E r \in Requests : sessions = <<>> /\ CheckoutCreateSession(r)
  \/ \E sid \in Indices(sessions) : CompleteCheckout(sid)
  \/ \E s \in Indices(stripeSubs), st \in {"active", "past_due"} :
        ProviderSetStatus(s, st)
  \/ \E s \in Indices(stripeSubs) : ProviderDelete(s)
  \/ \E k \in Indices(pending) : CheckoutCompletedWrite(k)
  \/ \E s \in Indices(stripeSubs) : ProviderInvoiceCreate(s)
  \/ \E i \in Indices(stripeInvoices), paid \in BOOLEAN :
        ProviderInvoiceCharge(i, paid)
  \/ \E type \in OtherTypes : ProviderOtherEvent(type)
  \/ \E d \in Deliveries, stripe \in BOOLEAN, webhookSecret \in WebhookSecrets :
        /\ ~Verified(d, stripe, webhookSecret)
        /\ StripeWebhook(d, FALSE, stripe, webhookSecret, "none")
  \/ \E d \in Deliveries, keep \in BOOLEAN, fault \in Faults :
        /\ Verified(d, TRUE, EndpointSecret)
        /\ StripeWebhook(d, keep, TRUE, EndpointSecret, fault)

SpecWebhook == Init /\ [][NextWebhook]_vars

\* Renewals: the subscription of one checkout session, its renewal payments
\* and invoices, each delivery handled without interruption.
NextPayment ==
  \/ Checkout
  \/ OneSession
  \/ OneHandler
  \/ Invoicing
  \/ \E s \in Indices(stripeSubs) : ProviderRenew(s)
  \/ \E s \in Indices(stripeSubs), paid \in BOOLEAN :
        ProviderRenewalPayment(s, paid)

SpecPayment == Init /\ [][NextPayment]_vars

\* Invoices under concurrent deliveries: one-off invoices of the customers
\* the provider holds, made by getOrCreateCustomer (in a checkout request
\* that is followed no further) or outside the application; the invoice
\* handlers are taken one database call at a time, up to MaxHandlers calls in
\* progress at once.
NextInvoice ==
  \/ SyncAllPlans
  \/ \E r \in Requests, u \in Users : CheckoutStart(r, u, "p1", "monthly")
  \/ \E r \in Requests : CheckoutCreateCustomer(r)
  \/ \E u \in Users \cup {""} : ProviderCreateCustomer(u)
  \/ \E c \in Indices(customers) : ProviderDeleteCustomer(c)
  \/ \E c \in Indices(customers) : ProviderOneOffInvoice(c)
  \/ \E i \in Indices(stripeInvoices), paid \in BOOLEAN :
        ProviderInvoiceCharge(i, paid)
  \/ \E e \in events, keep \in BOOLEAN : InvoiceCreatedRead(e, keep)
  \/ \E e \in events, keep \in BOOLEAN : InvoicePaymentRead(e, keep)
  \/ \E k \in Indices(pending), retrieved \in BOOLEAN :
        InvoicePaymentWrite(k, retrieved)
  \/ \E k \in Indices(pending), retrieved \in BOOLEAN : InvoiceInsert(k, retrieved)

SpecInvoice == Init /\ [][NextInvoice]_vars

\* Racing checkouts: two requests of the one user for the same plan that
\* both make the existing-subscription check before either has its session;
\* the sessions are then paid.
NextRace ==
  \/ SyncAllPlans
  \/ \E r \in RaceRequests, u \in Users :
        sessions = <<>> /\ CheckoutStart(r, u, "p1", "monthly")
  \/ \E r \in RaceRequests : CheckoutCreateCustomer(r)
  \/ \E r \in RaceRequests : sessions = <<>> /\ CheckoutCheck(r)
  \/ \E r \in RaceRequests : CheckoutCreateSession(r)
  \/ \E sid \in Indices(sessions) : CompleteCheckout(sid)
  \/ \E k \in Indices(pending) : CheckoutCompletedWrite(k)
  \/ OneHandler

SpecRace == InitRace /\ [][NextRace]_vars

\* the seeded plans after the sync of initialize()
SyncedCatalog ==
  SyncedAllPlans([p \in PlanIds |->
                    PlanRow(IF p = "p1" THEN "starter" ELSE "professional")],
                 {}, <<>>, TRUE, [p \in PlanIds |-> "none"])

\* the subscriptions of customer 1 to the starter plan, by status
HeldSubscriptions ==
  {[NewSubscription(1, PriceId("p1", "monthly", 1)) EXCEPT !.status = st] :
     st \in SubStatuses}

\* A user comes back to check out: the plans are synced, the user has a
\* customer, and the customer holds up to MaxSubs subscriptions in any
\* status (made by racing checkouts or outside the application, their events
\* long delivered).
InitRecheckout ==
  /\ plans = SyncedCatalog.plans
  /\ prices = SyncedCatalog.prices
  /\ products = SyncedCatalog.products
  /\ users = [u \in Users |-> 1]
  /\ customers = <<[userId |-> "u1", deleted |-> FALSE]>>
  /\ \E n \in 0..MaxSubs : stripeSubs \in [1..n -> HeldSubscriptions]
  /\ subscriptions = <<>>
  /\ invoices = <<>>
  /\ stripeInvoices = <<>>
  /\ sessions = <<>>
  /\ events = {}
  /\ req = [r \in Requests |-> IdleReq]
  /\ pending = <<>>
  /\ emitted = 0
  /\ response = NoResponse

\* the checkout of such a user, with cancels of the cleanup that throw
NextRecheckout ==
  \/ \E r \in Requests, u \in Users : CheckoutStart(r, u, "p1", "monthly")
  \/ \E r \in Requests, failing \in SUBSET Indices(stripeSubs) :
        CheckoutCheckWith(r, failing)
  \/ \E r \in Requests : CheckoutCreateSession(r)
  \/ \E sid \in Indices(sessions) : CompleteCheckout(sid)

SpecRecheckout == InitRecheckout /\ [][NextRecheckout]_vars

\* The user's requests that pair a provider call with a local write: the
\* checkout with getOrCreateCustomer one call at a time and a provider that
\* can refuse, then the routes that change the subscription of the one
\* checkout session, which the provider may have ended by then.
NextUserPaths ==
  \/ SyncAllPlans
  \/ \E r \in Requests, u \in Users : CheckoutStart(r, u, "p1", "monthly")
  \/ \E r \in Requests, fails \in BOOLEAN : CustomersCreate(r, fails)
  \/ \E r \in Requests : StoreCustomer(r)
  \/ \E r \in Requests : CheckoutCheck(r)
  \/ \E r \in Requests : sessions = <<>> /\ CheckoutCreateSession(r)
  \/ \E sid \in Indices(sessions) : CompleteCheckout(sid)
  \/ OneHandler
  \/ \E k \in Indices(pending) : CheckoutCompletedWrite(k)
  \/ \E s \in Indices(stripeSubs) : ProviderDelete(s)
  \/ \E e \in events, keep \in BOOLEAN : WebhookSubscriptionUpdated(e, keep)
  \/ \E u \in Users : Cancel(u)
  \/ \E u \in Users : Reactivate(u)
  \/ \E u \in Users, p \in PlanIds, i \in Intervals : ChangePlan(u, p, i)
  \/ \E u \in Users, p \in PlanIds, i \in Intervals : StripeChangePlan(u, p, i)

SpecUserPaths == Init /\ [][NextUserPaths]_vars

\* Racing first checkouts: two requests of the one user in progress at once,
\* getOrCreateCustomer one call at a time; the sessions are paid and the
\* user comes back.
NextCustomerRace ==
  \/ SyncAllPlans
  \/ \E r \in RaceRequests, u \in Users : CheckoutStart(r, u, "p1", "monthly")
  \/ \E r \in RaceRequests : CustomersCreate(r, FALSE)
  \/ \E r \in RaceRequests : StoreCustomer(r)
  \/ \E r \in RaceRequests : CheckoutCheck(r)
  \/ \E r \in RaceRequests : CheckoutCreateSession(r)
  \/ \E sid \in Indices(sessions) : CompleteCheckout(sid)

SpecCustomerRace == InitRace /\ [][NextCustomerRace]_vars

\* Price changes made at the provider: the subscription of one checkout
\* session is moved between the plans' prices and prices of no plan, or
\* loses its item, and changes status; the events are handled in any order.
NextPriceChange ==
  \/ SyncAllPlans
  \/ \E r \in Requests, u \in Users : CheckoutStart(r, u, "p1", "monthly")
  \/ \E r \in Requests : CheckoutCreateCustomer(r)
  \/ \E r \in Requests : CheckoutCheck(r)
  \/ \E r \in Requests : sessions = <<>> /\ CheckoutCreateSession(r)
  \/ \E sid \in Indices(sessions) : CompleteCheckout(sid)
  \/ OneHandler
  \/ \E k \in Indices(pending) : CheckoutCompletedWrite(k)
  \/ \E s \in Indices(stripeSubs), q \in prices \cup ForeignPrices \cup {NoPrice} :
        ProviderSetPrice(s, q)
  \/ \E s \in Indices(stripeSubs), st \in {"active", "past_due"} :
        ProviderSetStatus(s, st)
  \/ \E e \in events, keep \in BOOLEAN : WebhookSubscriptionUpdated(e, keep)

SpecPriceChange == Init /\ [][NextPriceChange]_vars

(* ---------------------------- properties ------------------------------ *)
\* the checkout sessions made by createCheckoutSession
OwnSessions ==
  {sid \in Indices(sessions) : sessions[sid].metadata \notin ForeignMetadata}

Last(s) == s[Len(s)]

\* the rows of a user after the step
RowsOfUserAfter(userId) ==
  {i \in Indices(subscriptions') : subscriptions'[i].userId = userId}

\* handleCheckoutCompleted reads: the data it will write has the status the
\* provider reports for the subscription at this moment
C1_Read(e, keep) ==
  WebhookCheckoutCompleted(e, keep) /\ e.session \in OwnSessions
    => /\ Len(pending') = Len(pending) + 1
       /\ Last(pending').data.status = stripeSubs[e.sub].status

\* handleCheckoutCompleted writes, for a user without a row: the user has
\* exactly one row afterwards, keyed by the external subscription id, with
\* the given status, the metadata's planId and that plan's slug
C1_Write(k, status) ==
  LET h == pending[k]
      metadata == sessions[h.event.session].metadata
      rows == RowsOfUserAfter(metadata.userId)
      row == subscriptions'[CHOOSE i \in rows : TRUE]
  IN CheckoutCompletedWrite(k) /\ h.event.session \in OwnSessions
       /\ RowsOfUser(metadata.userId) = {}
     => /\ Cardinality(rows) = 1
        /\ row.stripeSubscriptionId = h.event.sub
        /\ row.status = status
        /\ row.planId = metadata.planId
        /\ row.plan = plans[metadata.planId].slug

C2_ExistingSubscriptionConflict ==
  [][\A r \in Requests :
       CheckoutCheck(r) /\ ActiveSubs(req[r].customerId) # {}
         => /\ response' = CheckoutResponse(409, "EXISTING_SUBSCRIPTION")
            /\ req'[r] = IdleReq
            /\ sessions' = sessions
            /\ subscriptions' = subscriptions]_vars

\* a checkout request was refused while a checkout session of the customer
\* has an active subscription
C2_Witness ==
  /\ response = CheckoutResponse(409, "EXISTING_SUBSCRIPTION")
  /\ \E sid \in OwnSessions :
        sessions[sid].subscription \in ActiveSubs(sessions[sid].customer)

\* the active subscriptions a customer obtained through createCheckoutSession
ActiveFromCheckout(customerId) ==
  {s \in ActiveSubs(customerId) :
     \E sid \in OwnSessions : sessions[sid].subscription = s}

C4_OneRowPerUser ==
  \A u \in Users : Cardinality(RowsOfUser(u)) <= 1

\* C5: in every reachable state an external subscription has at most one
\* row in the subscriptions table, whatever the number and interleaving of
\* the deliveries of its checkout.session.completed event.
C5_OneRowPerStripeId ==
  \A s \in Indices(stripeSubs) : Cardinality(RowsOfStripeId(s)) <= 1

\* of two interleaved deliveries the second to write was refused by the
\* unique index, the row of the first is in place
C5_Witness ==
  /\ response = HandlerError("checkout.session.completed")
  /\ Len(subscriptions) = 1
  /\ RowsOfStripeId(subscriptions[1].stripeSubscriptionId) = {1}

\* C6: the subscriptions table gets a row only by the write of
\* handleCheckoutCompleted, one row at a time, and never loses one: no
\* step of createCheckoutSession, no plan change, cancel or reactivate and
\* no other webhook handler changes the number of rows; a
\* customer.subscription.updated event for a subscription without a row
\* changes no table.
C6_RowsOnlyFromCheckoutCompleted ==
  [][/\ Len(subscriptions') # Len(subscriptions)
          => /\ \E k \in Indices(pending) : CheckoutCompletedWrite(k)
             /\ Len(subscriptions') = Len(subscriptions) + 1
     /\ \A e \in events, keep \in BOOLEAN :
          WebhookSubscriptionUpdated(e, keep) /\ RowsOfStripeId(e.sub) = {}
            => UNCHANGED dbVars]_vars

\* a customer.subscription.updated event was acknowledged for a
\* subscription the provider holds and the table has no row for
C6_Witness ==
  /\ response = Received("customer.subscription.updated")
  /\ stripeSubs # <<>>
  /\ subscriptions = <<>>

\* C7: a checkout.session.completed event whose session metadata lacks
\* userId, planId or billingInterval is dropped: no table changes, no write
\* is left to come, and the endpoint answers 200 received.
C7_MissingMetadataDropped ==
  [][\A e \in events, keep \in BOOLEAN :
       LET metadata == sessions[e.session].metadata
       IN WebhookCheckoutCompleted(e, keep)
            /\ (\/ metadata.userId = ""
                \/ metadata.planId = ""
                \/ metadata.billingInterval = "")
          => /\ UNCHANGED dbVars
             /\ pending' = pending
             /\ response' = Received("checkout.session.completed")]_vars

\* the event of a paid session without billingInterval was delivered for
\* good and acknowledged; the subscription it announced has no row
C7_Witness ==
  /\ response = Received("checkout.session.completed")
  /\ \E sid \in Indices(sessions) :
        /\ sessions[sid].metadata.billingInterval = ""
        /\ sessions[sid].subscription # 0
        /\ RowsOfStripeId(sessions[sid].subscription) = {}
  /\ events = {}
  /\ pending = <<>>

\* C8: after customer.subscription.updated is handled for a subscription
\* that has a row, the row's status, period start, period end and
\* cancel-at-period-end flag are the event's, whatever they were before.
C8_UpdatedEventOverwrites ==
  [][\A e \in events, keep \in BOOLEAN :
       WebhookSubscriptionUpdated(e, keep) /\ FindByStripeId(e.sub) # 0
         => LET row == subscriptions'[FindByStripeId(e.sub)]
            IN /\ row.status = e.status
               /\ row.currentPeriodStart = e.period * 1000
               /\ row.currentPeriodEnd = (e.period + 1) * 1000
               /\ row.cancelAtPeriodEnd = e.cancel]_vars

\* the handler has just replaced the flag the cancel route wrote by the
\* flag of an event made before the cancel, and set the event's status
C8_Witness ==
  /\ response = Received("customer.subscription.updated")
  /\ Len(subscriptions) = 1
  /\ LET row == subscriptions[1]
         sub == stripeSubs[row.stripeSubscriptionId]
     IN /\ sub.cancel_at_period_end
        /\ ~row.cancelAtPeriodEnd
        /\ row.status = "past_due"

\* C9: a customer.subscription.updated event whose price is a plan's yearly
\* price sets the row's billingInterval to yearly and its planId and legacy
\* plan column to that plan; with a plan's monthly price it sets monthly
\* and that plan.
C9_PriceResolvesPlanAndInterval ==
  [][\A e \in events, keep \in BOOLEAN :
       WebhookSubscriptionUpdated(e, keep) /\ FindByStripeId(e.sub) # 0
         /\ e.price # NoPrice
         => LET row == subscriptions'[FindByStripeId(e.sub)]
            IN \A p \in PlanIds :
                 /\ e.price = plans[p].stripePriceIdYearly
                      => /\ row.billingInterval = "yearly"
                         /\ row.planId = p
                         /\ row.plan = plans[p].slug
                 /\ e.price = plans[p].stripePriceIdMonthly
                      => /\ row.billingInterval = "monthly"
                         /\ row.planId = p
                         /\ row.plan = plans[p].slug]_vars

\* a subscription bought as starter monthly has, after the event of its
\* change of price, a row for professional yearly
C9_Witness ==
  /\ response = Received("customer.subscription.updated")
  /\ Len(subscriptions) = 1
  /\ \E sid \in OwnSessions :
        /\ sessions[sid].subscription = subscriptions[1].stripeSubscriptionId
        /\ sessions[sid].metadata.planId = "p1"
        /\ sessions[sid].metadata.billingInterval = "monthly"
  /\ subscriptions[1].billingInterval = "yearly"
  /\ subscriptions[1].planId = "p2"
  /\ subscriptions[1].plan = "professional"

\* the row holds the status, the period and the cancel flag of the
\* provider's subscription
Reflects(row, sub) ==
  /\ row.status = sub.status
  /\ row.currentPeriodStart = sub.period * 1000
  /\ row.currentPeriodEnd = (sub.period + 1) * 1000
  /\ row.cancelAtPeriodEnd = sub.cancel_at_period_end

\* e is an update event E1 of a live subscription that was changed again
\* after E1 was made, and every later update event E2 of the subscription
\* has been delivered for good
DeliveredAfterLater(e) ==
  LET sub == stripeSubs[e.sub]
  IN /\ sub.status # "canceled"
     /\ \/ e.status # sub.status
        \/ e.period # sub.period
        \/ e.cancel # sub.cancel_at_period_end
     /\ ~\E e2 \in events :
           /\ e2.type = "customer.subscription.updated"
           /\ e2.sub = e.sub
           /\ e2.id > e.id

\* C10 as stated: when the update events of a subscription are delivered
\* out of order, E2 before the earlier E1, a row that reflects the
\* provider's latest state still reflects it after E1 is handled.
C10_LatestEventWins ==
  [][\A e \in events, keep \in BOOLEAN :
       LET existingSub == FindByStripeId(e.sub)
       IN WebhookSubscriptionUpdated(e, keep) /\ existingSub # 0
            /\ DeliveredAfterLater(e)
            /\ Reflects(subscriptions[existingSub], stripeSubs[e.sub])
          => Reflects(subscriptions'[existingSub], stripeSubs[e.sub])]_vars

\* C11: handling an event a second time, the provider's state being the
\* same, changes nothing: for every event the provider has sent, of any of
\* the six handled kinds, the subscriptions and invoices tables after two
\* consecutive runs of its handler are the tables after one run, and one run
\* adds at most one row to one table.
C11_HandlersIdempotent ==
  \A e \in events :
     LET subs1 == HandledSubscriptions(subscriptions, e)
         inv1 == HandledInvoices(invoices, e)
     IN /\ HandledSubscriptions(subs1, e) = subs1
        /\ HandledInvoices(inv1, e) = inv1
        /\ Len(subs1) + Len(inv1) <= Len(subscriptions) + Len(invoices) + 1

\* invoice.payment_succeeded has been handled once for an invoice that had
\* no row, which made its row, and the event will be delivered again
C11_Witness ==
  /\ response = Received("invoice.payment_succeeded")
  /\ \A e \in events : e.type = "invoice.payment_succeeded"
  /\ events # {}
  /\ Len(invoices) = 1
  /\ invoices[1].status = "paid"

\* the call pending[k] of handleInvoicePaymentSucceeded, whose first lookup
\* found no row for the invoice, returns in this step
PaymentSucceededReturns(k, retrieved) ==
  /\ \/ InvoicePaymentWrite(k, retrieved)
     \/ InvoiceInsert(k, retrieved)
  /\ pending[k].event.type = "invoice.payment_succeeded"
  /\ pending[k].existingInvoice = 0
  /\ Len(pending') < Len(pending)

\* C12 as stated, for an invoice whose customer is not deleted and carries a
\* userId: when handleInvoicePaymentSucceeded has handled an invoice for
\* which it found no local row, the invoice has a row and its status is
\* paid.
C12_PaidWithoutInvoiceCreated ==
  [][\A k \in Indices(pending), retrieved \in BOOLEAN :
       PaymentSucceededReturns(k, retrieved)
         /\ (pending[k].pc = "insert" \/ InvoiceOwner(pending[k].event) # "")
       => LET row == FindInvoiceRow(invoices', pending[k].event.invoice)
          IN /\ row # 0
             /\ invoices'[row].status = "paid"]_vars

\* how far an invoice has advanced
StatusRank(status) ==
  CASE status = "draft" -> 0
    [] status = "open" -> 1
    [] status = "paid" -> 2

\* C13 as stated: the status of an invoice row never regresses; a row that
\* is paid stays paid whatever event is handled later.
C13_InvoiceStatusNeverRegresses ==
  [][\A i \in Indices(invoices) :
       StatusRank(invoices'[i].status) >= StatusRank(invoices[i].status)]_vars

RowsOfInvoice(table, invoiceId) ==
  {i \in Indices(table) : table[i].stripeInvoiceId = invoiceId}

\* the customer of the invoice is not deleted and its metadata carries a
\* userId
HasOwner(e) ==
  /\ e.customer # 0
  /\ ~customers[e.customer].deleted
  /\ customers[e.customer].userId # ""

\* the call goes on to insert for the userId of the customer's metadata
OwnerRead(call) ==
  /\ HasOwner(call.event)
  /\ call.owner = customers[call.event.customer].userId

\* C14: an external invoice never has more than one row in the invoices
\* table.  A row is added only by the insert of handleInvoiceCreated, for an
\* invoice that has no row at that moment and for the userId the call read
\* from the customer's metadata; a call goes on to the insert only when the
\* customer it retrieved is not deleted and carries that userId, and
\* otherwise leaves the table alone.
C14_OneRowPerInvoiceId ==
  [][/\ \A i \in Indices(stripeInvoices) :
          Cardinality(RowsOfInvoice(invoices', i)) <= 1
     /\ Len(invoices') # Len(invoices)
          => \E k \in Indices(pending), retrieved \in BOOLEAN :
                /\ InvoiceInsert(k, retrieved)
                /\ RowsOfInvoice(invoices, pending[k].event.invoice) = {}
                /\ invoices' =
                     Append(invoices,
                            InvoiceRow(pending[k].owner, pending[k].event))
                /\ pending[k].owner # ""
     /\ \A e \in events, keep \in BOOLEAN :
          InvoiceCreatedRead(e, keep) \/ InvoicePaymentRead(e, keep)
            => /\ invoices' = invoices
               /\ Len(pending') > Len(pending) /\ Last(pending').pc = "insert"
                    => OwnerRead(Last(pending'))
               /\ e.type = "invoice.created" /\ ~HasOwner(e)
                    => pending' = pending
     /\ \A k \in Indices(pending), retrieved \in BOOLEAN :
          InvoicePaymentWrite(k, retrieved)
            => /\ Len(pending') = Len(pending) => OwnerRead(pending'[k])
               /\ pending[k].existingInvoice = 0 /\ ~HasOwner(pending[k].event)
                    => /\ invoices' = invoices
                       /\ Len(pending') < Len(pending)]_vars

\* two calls were on their way to insert the row of the same invoice; one
\* has inserted it, the other is still to try
C14_Witness ==
  /\ Len(invoices) = 1
  /\ \E k \in Indices(pending) :
        /\ pending[k].pc = "insert"
        /\ RowsOfInvoice(invoices, pending[k].event.invoice) = {1}

\* the rows other than row i are as before, and row i has kept its user,
\* its external id, its planId, its plan slug and its billing interval
OnlyRowTouched(i) ==
  /\ Len(subscriptions') = Len(subscriptions)
  /\ \A j \in Indices(subscriptions) : j # i => subscriptions'[j] = subscriptions[j]
  /\ subscriptions'[i].userId = subscriptions[i].userId
  /\ subscriptions'[i].stripeSubscriptionId = subscriptions[i].stripeSubscriptionId
  /\ subscriptions'[i].planId = subscriptions[i].planId
  /\ subscriptions'[i].plan = subscriptions[i].plan
  /\ subscriptions'[i].billingInterval = subscriptions[i].billingInterval

\* C15: when invoice.payment_succeeded is handled for an invoice of a
\* subscription that has a row, the row gets the status and the period
\* start and end the provider reports for the subscription at that moment;
\* its planId, plan slug and billing interval stay, no other row changes;
\* and when the retrieve of the subscription fails, the subscriptions table
\* stays as it was while the invoice's row is paid all the same.
C15_PaymentSucceededRefreshesPeriod ==
  [][\A e \in events, keep \in BOOLEAN, retrieved \in BOOLEAN :
       LET i == FindByStripeId(e.sub)
           inv == FindInvoice(e.invoice)
           sub == stripeSubs[e.sub]
       IN WebhookInvoicePaymentSucceeded(e, keep, retrieved)
            /\ e.sub # 0 /\ i # 0
          => /\ retrieved
                  => /\ subscriptions'[i].status = sub.status
                     /\ subscriptions'[i].currentPeriodStart = sub.period * 1000
                     /\ subscriptions'[i].currentPeriodEnd = (sub.period + 1) * 1000
                     /\ OnlyRowTouched(i)
             /\ ~retrieved => subscriptions' = subscriptions
             /\ inv # 0
                  => /\ invoices'[inv].status = "paid"
                     /\ invoices'[inv].amountPaid = e.amount_paid]_vars

\* the payment of a renewal was handled: the row of the subscription, bought
\* in period 0, is in period 1 and active, and the invoice is paid
C15_Witness ==
  /\ response = Received("invoice.payment_succeeded")
  /\ Len(subscriptions) = 1
  /\ subscriptions[1].currentPeriodStart = 1000
  /\ subscriptions[1].currentPeriodEnd = 2000
  /\ subscriptions[1].status = "active"
  /\ Len(invoices) = 1
  /\ invoices[1].status = "paid"

\* C16: when invoice.payment_failed is handled, an invoice that has a row
\* gets the status the event reports and nothing else of it changes; if the
\* invoice belongs to a subscription that has a row, that row gets the
\* status the provider reports for the subscription at that moment and
\* everything else in the subscriptions table stays (period, cancel flag,
\* planId, plan slug, billing interval, the other rows); a row becomes
\* canceled only when the provider reports the subscription as canceled.
C16_PaymentFailedTouchesStatusOnly ==
  [][\A e \in events, keep \in BOOLEAN, retrieved \in BOOLEAN :
       LET i == FindByStripeId(e.sub)
           inv == FindInvoice(e.invoice)
       IN WebhookInvoicePaymentFailed(e, keep, retrieved)
          => /\ inv # 0
                  => invoices' = [invoices EXCEPT ![inv].status = e.status]
             /\ IF e.sub # 0 /\ i # 0 /\ retrieved
                THEN /\ subscriptions' =
                          [subscriptions EXCEPT
                             ![i].status = stripeSubs[e.sub].status]
                     /\ subscriptions'[i].status = "canceled"
                          => stripeSubs[e.sub].status = "canceled"
                ELSE subscriptions' = subscriptions]_vars

\* the failed payment of a renewal was handled after the subscription had
\* moved to its next period: the invoice's row is open, the subscription's
\* row is past_due and still shows the period it was bought in
C16_Witness ==
  /\ response = Received("invoice.payment_failed")
  /\ Len(invoices) = 1
  /\ invoices[1].status = "open"
  /\ Len(subscriptions) = 1
  /\ subscriptions[1].status = "past_due"
  /\ subscriptions[1].currentPeriodStart = 0
  /\ stripeSubs[subscriptions[1].stripeSubscriptionId].period = 1

\* C17: when customer.subscription.deleted is handled, the row of the
\* event's subscription has status canceled and is otherwise as before, and
\* so is every other row and every other table; without a row for the
\* subscription no table changes.
C17_DeletedSetsStatusOnly ==
  [][\A e \in events, keep \in BOOLEAN :
       LET i == FindByStripeId(e.sub)
       IN WebhookSubscriptionDeleted(e, keep)
          => /\ IF i = 0 THEN subscriptions' = subscriptions
                ELSE subscriptions' =
                       [subscriptions EXCEPT ![i].status = "canceled"]
             /\ UNCHANGED <<plans, users, invoices>>]_vars

\* the subscription was set to cancel at the period's end and then deleted:
\* its row is canceled and still carries the flag and its plan
C17_Witness ==
  /\ response = Received("customer.subscription.deleted")
  /\ Len(subscriptions) = 1
  /\ subscriptions[1].status = "canceled"
  /\ subscriptions[1].cancelAtPeriodEnd
  /\ subscriptions[1].planId \in PlanIds

\* the bodies of the route that carry received: true, sent with HTTP 200
Acknowledged(r) == r.code = 200 /\ r.body \in {"received", "Handler error"}

\* everything but the response is as it was
NothingChanged ==
  UNCHANGED <<plans, users, subscriptions, invoices, customers, prices, products,
              stripeSubs, stripeInvoices, sessions, events, emitted, req,
              pending>>

\* C18: a request whose signature verification has passed is answered with
\* HTTP 200 and received: true, whatever the kind of its event and also when
\* its handler throws; handleCheckoutCompleted, which the model takes in two
\* steps, sends no response at its read and that answer at its write.
C18_VerifiedAlwaysAcknowledged ==
  [][/\ \A d \in Deliveries, keep \in BOOLEAN, fault \in Faults :
          /\ Verified(d, TRUE, EndpointSecret)
          /\ StripeWebhook(d, keep, TRUE, EndpointSecret, fault)
          => \/ Acknowledged(response')
             \/ /\ d.event.type = "checkout.session.completed"
                /\ fault # "throws"
                /\ Len(pending') = Len(pending) + 1
                /\ response' = NoResponse
     /\ \A k \in Indices(pending) :
          CheckoutCompletedWrite(k) => Acknowledged(response')]_vars

\* the handler of a failed payment threw before it wrote anything: the
\* request was still answered 200
C18_Witness ==
  /\ response = HandlerError("invoice.payment_failed")
  /\ Len(stripeInvoices) = 1
  /\ invoices = <<>>

\* C19, as stated: a request that is not verified is rejected with HTTP 400
\* and changes nothing.
C19_UnverifiedRejected400 ==
  [][\A d \in Deliveries, stripe \in BOOLEAN, webhookSecret \in WebhookSecrets :
       /\ ~Verified(d, stripe, webhookSecret)
       /\ StripeWebhook(d, FALSE, stripe, webhookSecret, "none")
       => /\ response'.code = 400
          /\ NothingChanged]_vars

\* C19: a request without signature, served without a configured secret, or
\* whose signature fails verification never reaches a handler and changes
\* nothing, neither a table nor a call in progress nor the provider's events;
\* it is answered 400 by a process that has a provider client and 503,
\* before its signature is looked at, by one that has none.
C19_UnverifiedNeverDispatched ==
  [][\A d \in Deliveries, stripe \in BOOLEAN, webhookSecret \in WebhookSecrets :
       /\ ~Verified(d, stripe, webhookSecret)
       /\ StripeWebhook(d, FALSE, stripe, webhookSecret, "none")
       => /\ response'.route = "webhook"
          /\ response'.code = IF stripe THEN 400 ELSE 503
          /\ NothingChanged]_vars

\* a request was refused for its signature while the provider's event for a
\* subscription that has a local row was waiting to be delivered
C19_Witness ==
  /\ response = Response("webhook", 400, "Webhook Error")
  /\ Len(subscriptions) = 1
  /\ \E e \in events : /\ e.type = "customer.subscription.deleted"
                       /\ FindByStripeId(e.sub) # 0
                       /\ subscriptions[FindByStripeId(e.sub)].status # "canceled"

\* C20: a verified event of a kind other than the six handled ones is
\* answered 200 with received: true and changes no table, no provider object
\* and no call in progress; the delivery only leaves the provider's queue.
C20_UnhandledKindsAcknowledged ==
  [][\A d \in Deliveries, keep \in BOOLEAN, fault \in Faults :
       /\ Verified(d, TRUE, EndpointSecret)
       /\ d.event.type \notin HandledTypes
       /\ StripeWebhook(d, keep, TRUE, EndpointSecret, fault)
       => /\ response' = Received(d.event.type)
          /\ UNCHANGED <<plans, users, subscriptions, invoices, customers,
                         prices, products, stripeSubs, stripeInvoices, sessions, emitted,
                         req, pending>>]_vars

\* an event of a kind the switch does not name was acknowledged while a
\* subscription row existed
C20_Witness ==
  /\ response = Received("charge.succeeded")
  /\ Len(subscriptions) = 1

\* the prices the provider holds for a plan
PricesOf(existing, planId) == {q \in existing : q.plan = planId}

\* C21: a price id a plan row holds is never changed: every step (seed,
\* the plan routes, a sync of the plan or of all plans, with or without
\* failing calls) leaves a recorded monthly id and a recorded yearly id as
\* they are, and creates no price for a plan that has both; and syncing a
\* plan a second time gives the rows and the prices of the first sync.
C21_PriceIdsWriteOnce ==
  [][\A p \in DOMAIN plans :
       /\ plans[p].stripePriceIdMonthly # NoPrice
          => /\ p \in DOMAIN plans'
             /\ plans'[p].stripePriceIdMonthly = plans[p].stripePriceIdMonthly
       /\ plans[p].stripePriceIdYearly # NoPrice
          => /\ p \in DOMAIN plans'
             /\ plans'[p].stripePriceIdYearly = plans[p].stripePriceIdYearly
       /\ plans[p].stripePriceIdMonthly # NoPrice
          /\ plans[p].stripePriceIdYearly # NoPrice
          => PricesOf(prices', p) = PricesOf(prices, p)
       /\ LET once == SyncedPlan(plans, prices, products, p, TRUE, "none")
              twice == SyncedPlan(once.plans, once.prices, once.products, p,
                                  TRUE, "none")
          IN /\ twice.plans = once.plans
             /\ twice.prices = once.prices]_vars

\* a synced plan whose amount was changed and that was soft-deleted still
\* has the first prices made for it, and the provider has no other
C21_Witness ==
  \E p \in DOMAIN plans :
     /\ plans[p].stripePriceIdMonthly = PriceId(p, "monthly", 1)
     /\ plans[p].stripePriceIdYearly = PriceId(p, "yearly", 1)
     /\ plans[p].slug = "starter"
     /\ plans[p].monthlyPrice = 4900
     /\ ~plans[p].isActive
     /\ PricesOf(prices, p) = {PriceId(p, "monthly", 1), PriceId(p, "yearly", 1)}
     /\ response = PlanResponse(200, "Plan synced with Stripe")

\* C22, as stated: the provider holds at most one monthly and at most one
\* yearly price of a plan (the n-th price made for a plan's interval has
\* number n).
C22_OnePricePerPlanInterval == \A q \in prices : q.n <= 1

\* the members of a sequence
Range(seq) == {seq[i] : i \in Indices(seq)}

\* the plans of the three buckets, one after the other
BucketPlans(results) ==
  results.synced \o results.skipped
    \o [i \in Indices(results.failed) |-> results.failed[i].planId]

\* how often a plan is in the buckets
TimesIn(results, planId) ==
  Cardinality({i \in Indices(BucketPlans(results)) :
                 BucketPlans(results)[i] = planId})

BothPriceIds(plan) ==
  plan.stripePriceIdMonthly # NoPrice /\ plan.stripePriceIdYearly # NoPrice

\* C26, as stated: whatever the process, syncAllPlansWithStripe puts every
\* active plan in exactly one bucket.
C26_EveryActivePlanInOneBucket ==
  \A stripe \in BOOLEAN, faults \in FaultMaps :
     LET r == SyncedAllPlans(plans, prices, products, stripe, faults)
     IN \A p \in DOMAIN plans :
          TimesIn(r.results, p) = IF plans[p].isActive THEN 1 ELSE 0

\* C26: with a provider client, syncAllPlansWithStripe puts every active
\* plan in exactly one bucket and no inactive plan in any: in skipped, with
\* its row and the provider's objects for it untouched, when it has both
\* price ids; in failed, with the message, when its sync throws; in synced
\* otherwise, and then its row has both ids, also when the sync of another
\* plan threw.  Without a provider client the three buckets are empty and
\* nothing is changed.
C26_BucketsPartitionActivePlans ==
  \A stripe \in BOOLEAN, faults \in FaultMaps :
     LET r == SyncedAllPlans(plans, prices, products, stripe, faults)
     IN IF ~stripe
        THEN /\ r.results = NoBuckets
             /\ r.plans = plans /\ r.prices = prices /\ r.products = products
        ELSE \A p \in DOMAIN plans :
               LET alone == SyncedPlan(plans, prices, products, p, TRUE, faults[p])
               IN /\ TimesIn(r.results, p) = IF plans[p].isActive THEN 1 ELSE 0
                  /\ p \in Range(r.results.skipped)
                     <=> plans[p].isActive /\ BothPriceIds(plans[p])
                  /\ p \in Range(r.results.skipped) \/ ~plans[p].isActive
                     => /\ r.plans[p] = plans[p]
                        /\ PricesOf(r.prices, p) = PricesOf(prices, p)
                        /\ FindProduct(r.products, p) = FindProduct(products, p)
                  /\ [planId |-> p, error |-> "error"] \in Range(r.results.failed)
                     <=> /\ plans[p].isActive
                         /\ ~BothPriceIds(plans[p])
                         /\ alone.result = "error"
                  /\ p \in Range(r.results.synced) => BothPriceIds(r.plans[p])

\* the sync of all plans has just run where the sync of the first active
\* plan failed before: the second plan is synced, the first has the second
\* monthly price made for it
C26_Witness ==
  /\ DOMAIN plans = {"p1", "p2"}
  /\ plans["p1"].isActive /\ plans["p2"].isActive
  /\ response = NoResponse
  /\ BothPriceIds(plans["p2"])
  /\ ~BothPriceIds(plans["p1"])
  /\ PricesOf(prices, "p1") = {PriceId("p1", "monthly", 1)}

\* C27: the sync of a plan in a process without provider client fails with
\* the not-configured error whatever the plan id, and with a client it ends
\* with not found for an id of no plan, whatever call would fail; in both
\* cases no row, price or product is changed or created.
C27_SyncFailsFast ==
  \A p \in DOMAIN plans \cup {"px"}, fault \in SyncFaults :
     LET without == SyncedPlan(plans, prices, products, p, FALSE, fault)
         with == SyncedPlan(plans, prices, products, p, TRUE, fault)
     IN /\ without = [plans |-> plans, prices |-> prices, products |-> products,
                      result |-> "not configured"]
        /\ SyncResponse(without.result)
             = PlanResponse(500, "Stripe is not configured")
        /\ p \notin DOMAIN plans
           => /\ with = [plans |-> plans, prices |-> prices,
                         products |-> products, result |-> "null"]
              /\ SyncResponse(with.result) = PlanResponse(404, "Plan not found")

\* the sync was refused for the missing client while an unsynced plan was
\* there to be synced
C27_Witness ==
  /\ response = PlanResponse(500, "Stripe is not configured")
  /\ \E p \in DOMAIN plans : plans[p].isActive /\ ~BothPriceIds(plans[p])
  /\ prices = {} /\ products = <<>>

\* C29: no two plan rows, active or not, have the same slug, and a POST
\* with the slug of a plan or a PUT with the slug of another plan is
\* answered 400 and changes neither the catalog nor the provider's objects.
C29_SlugsUnique ==
  /\ \A p, q \in DOMAIN plans : p # q => plans[p].slug # plans[q].slug
  /\ \A input \in CreateInputs, stripe \in BOOLEAN, fault \in SyncFaults :
       (\E p \in DOMAIN plans : plans[p].slug = input.slug)
       => PostedPlan(plans, prices, products, input, stripe, fault)
            = [plans |-> plans, prices |-> prices, products |-> products,
               response |->
                 PlanResponse(400, "A plan with this slug already exists")]
  /\ \A p \in DOMAIN plans \cup {"px"}, input \in UpdateInputs :
       /\ Has(input, "slug")
       /\ \E q \in DOMAIN plans : q # p /\ plans[q].slug = input.slug
       => UpdatedPlans(plans, p, input)
            = [plans |-> plans,
               response |->
                 PlanResponse(400, "A plan with this slug already exists")]

\* a request with the slug of another plan, an inactive one, was refused
C29_Witness ==
  /\ response = PlanResponse(400, "A plan with this slug already exists")
  /\ DOMAIN plans = {"p1", "p2"}
  /\ ~plans["p1"].isActive
  /\ plans["p1"].slug = "professional"
  /\ plans["p2"].slug = "starter"

\* C30: seedDefaultPlans inserts the default plans when the plans table is
\* empty and changes nothing when it holds a row, be it of a seed that
\* failed part-way; a second call leaves what the first left.
C30_SeedOnlyWhenEmpty ==
  [][/\ \A fails \in 0..Len(DefaultPlans) :
          SeedDefaultPlans(fails)
          => /\ DOMAIN plans # {} => plans' = plans
             /\ DOMAIN plans = {} /\ fails = 0
                => /\ Cardinality(DOMAIN plans') = Len(DefaultPlans)
                   /\ \A i \in Indices(DefaultPlans) :
                        /\ plans'[PlanId(i)].slug = DefaultPlans[i].slug
                        /\ plans'[PlanId(i)].monthlyPrice = DefaultPlans[i].monthlyPrice
                        /\ plans'[PlanId(i)].isActive
     /\ \A first \in {0} \cup 2..Len(DefaultPlans), second \in 0..Len(DefaultPlans) :
          SeededPlans(SeededPlans(plans, first), second) = SeededPlans(plans, first)]_vars

\* the seed of an empty catalog failed at its second insert, and a later
\* seed left the catalog with the one plan
C30_Witness ==
  /\ DOMAIN plans = {"p1"}
  /\ plans["p1"] = PlanRow("starter")
  /\ response = NoResponse
  /\ prices = {}

\* the subscription a plan change of the user acts on, by route
ChangedByChangePlan(userId) == subscriptions[FindByUser(userId)].stripeSubscriptionId

ChangedByStripeChangePlan(userId) == Max(ActiveSubs(users[userId]))

\* the row of subscription s has what the plan change asked for and what the
\* provider returned
RowFollowsChange(s, planId, billingInterval) ==
  LET row == subscriptions'[FindByStripeId(s)]
  IN /\ row.planId = planId
     /\ row.billingInterval = billingInterval
     /\ row.status = stripeSubs'[s].status
     /\ row.currentPeriodEnd = ToDate(stripeSubs'[s].period + 1)

\* C23, as stated: a plan change that succeeds, by either route, sets the
\* price of the existing provider subscription, makes no other subscription
\* and leaves the row of that subscription with the new plan id, the
\* requested interval and the provider's status and period end.
C23_PlanChangeUpdatesRow ==
  [][\A u \in Users, p \in PlanIds, i \in Intervals :
       /\ ChangePlan(u, p, i) /\ response'.code = 200
          => /\ Len(stripeSubs') = Len(stripeSubs)
             /\ stripeSubs'[ChangedByChangePlan(u)].price = PriceOf(plans[p], i)
             /\ RowFollowsChange(ChangedByChangePlan(u), p, i)
       /\ StripeChangePlan(u, p, i) /\ response'.code = 200
          /\ FindByStripeId(ChangedByStripeChangePlan(u)) # 0
          => /\ Len(stripeSubs') = Len(stripeSubs)
             /\ stripeSubs'[ChangedByStripeChangePlan(u)].price = PriceOf(plans[p], i)
             /\ RowFollowsChange(ChangedByStripeChangePlan(u), p, i)]_vars

\* C24, as stated: the plan column of every subscription row is the slug of
\* the plan its planId names.
C24_LegacySlugInSync ==
  \A i \in Indices(subscriptions) :
     /\ PlanExists(subscriptions[i].planId)
     /\ subscriptions[i].plan = plans[subscriptions[i].planId].slug

\* C25: createCheckoutSession for an id of no plan, or for a plan without
\* price id for the requested interval, throws before any provider call: the
\* route answers 500 with the message, the request is over, and no
\* customer, customer mapping, session or row is created or changed.
C25_CheckoutFailsFast ==
  [][\A r \in Requests, u \in Users, o \in Orders :
       /\ CheckoutStart(r, u, o[1], o[2])
       /\ ~PlanExists(o[1]) \/ PriceOf(plans[o[1]], o[2]) = NoPrice
       => /\ response' = CheckoutResponse(500, IF PlanExists(o[1])
                                               THEN "Stripe price not configured"
                                               ELSE "Plan not found")
          /\ req'[r].pc = "idle"
          /\ UNCHANGED <<plans, users, subscriptions, invoices, customers,
                         sessions, stripeSubs, events>>]_vars

\* a checkout for a plan that is not synced yet was refused, and the user
\* has no customer
C25_Witness ==
  /\ response = CheckoutResponse(500, "Stripe price not configured")
  /\ \A u \in Users : users[u] = 0
  /\ customers = <<>>
  /\ sessions = <<>>

\* C28: no step removes a row of the plans table; deletePlan on an existing
\* plan clears its isActive and changes nothing else, no subscription row
\* either; and the planId of every subscription row names a row of the
\* plans table, which getUserSubscription finds whether active or not.
C28_PlansNeverRemoved ==
  [][/\ DOMAIN plans \subseteq DOMAIN plans'
     /\ \A p \in DOMAIN plans :
          DeletePlan(p)
          => /\ plans' = [plans EXCEPT ![p].isActive = FALSE]
             /\ UNCHANGED subscriptions
     /\ \A i \in Indices(subscriptions') :
          subscriptions'[i].planId \in DOMAIN plans']_vars

\* the plan of the user's subscription was soft-deleted
C28_Witness ==
  /\ response = PlanResponse(200, "Plan deleted")
  /\ Len(subscriptions) = 1
  /\ ~plans[subscriptions[1].planId].isActive
  /\ subscriptions[1].status = "active"

\* C31: nothing spans the check and the creation of the session.  A request
\* whose customer has no active subscription passes the check whatever the
\* other request is doing, a request that passed the check gets its session
\* (the route answers 200 with the url), and every paid session makes an
\* active subscription of its customer, whatever the customer already holds.
C31_NoLockSpansCheckAndSession ==
  [][/\ \A r \in RaceRequests :
          /\ req[r].pc = "check" /\ req'[r].pc # "check"
             /\ ActiveSubs(req[r].customerId) = {}
             => req'[r].pc = "session"
          /\ req[r].pc = "session" /\ req'[r].pc # "session"
             => /\ Len(sessions') = Len(sessions) + 1
                /\ Last(sessions').customer = req[r].customerId
                /\ Last(sessions').subscription = 0
                /\ response' = CheckoutResponse(200, "url")
     /\ \A sid \in Indices(sessions) :
          sessions[sid].subscription = 0 /\ sessions'[sid].subscription # 0
          => /\ Len(stripeSubs') = Len(stripeSubs) + 1
             /\ sessions'[sid].subscription = Len(stripeSubs')
             /\ Last(stripeSubs').customer = sessions[sid].customer
             /\ Last(stripeSubs').status = "active"]_vars

\* both requests of the user made the check before either had its session,
\* both sessions were paid, and the one customer holds two active
\* subscriptions
C31_Witness ==
  /\ Len(sessions) = 2
  /\ sessions[1].customer = sessions[2].customer
  /\ sessions[1].metadata.userId = sessions[2].metadata.userId
  /\ sessions[1].subscription # 0
  /\ sessions[2].subscription # 0
  /\ Cardinality(ActiveSubs(sessions[1].customer)) = 2

\* the customer's subscriptions with status active in the table subs
ActiveIn(subs, customerId) ==
  {s \in Indices(subs) :
     subs[s].customer = customerId /\ subs[s].status = "active"}

\* C32: the existing-subscription check of a customer with active
\* subscriptions fails with EXISTING_SUBSCRIPTION (409) after the cleanup:
\* of the active subscriptions every one but the most recently created is
\* canceled unless its own cancel throws, nothing else changes at the
\* provider; with one active subscription nothing is canceled; when no
\* cancel throws only the most recent one stays active.
C32_CleanupKeepsMostRecent ==
  [][\A r \in Requests, failing \in SUBSET Indices(stripeSubs) :
       LET c == req[r].customerId
           active == ActiveIn(stripeSubs, c)
       IN CheckoutCheckWith(r, failing) /\ active # {}
          => /\ response' = CheckoutResponse(409, "EXISTING_SUBSCRIPTION")
             /\ req'[r] = IdleReq
             /\ Len(stripeSubs') = Len(stripeSubs)
             /\ \A s \in Indices(stripeSubs) :
                  stripeSubs'[s] =
                    IF s \in active /\ s # Max(active) /\ s \notin failing
                    THEN [stripeSubs[s] EXCEPT !.status = "canceled"]
                    ELSE stripeSubs[s]
             /\ Cardinality(active) <= 1 => UNCHANGED stripeSubs
             /\ failing \cap active = {}
                => ActiveIn(stripeSubs', c) = {Max(active)}]_vars

\* of three active subscriptions the oldest was canceled (its event is out)
\* although the cancel of the second threw; the newest was kept
C32_Witness ==
  /\ response = CheckoutResponse(409, "EXISTING_SUBSCRIPTION")
  /\ Len(stripeSubs) = 3
  /\ stripeSubs[1].status = "canceled"
  /\ stripeSubs[2].status = "active"
  /\ stripeSubs[3].status = "active"
  /\ emitted = 1
  /\ \E e \in events :
        e.type = "customer.subscription.deleted" /\ e.sub = 1

\* C37: a request whose customer has no subscription with status active
\* passes the check, whatever subscriptions in other statuses the customer
\* holds, and is then given a session; with an active one it is refused.
C37_OnlyActiveCounts ==
  [][\A r \in Requests :
       /\ req[r].pc = "check" /\ req'[r].pc # "check"
          => IF \E s \in Indices(stripeSubs) :
                   /\ stripeSubs[s].customer = req[r].customerId
                   /\ stripeSubs[s].status = "active"
             THEN response' = CheckoutResponse(409, "EXISTING_SUBSCRIPTION")
             ELSE req'[r].pc = "session" /\ UNCHANGED stripeSubs
       /\ req[r].pc = "session" /\ req'[r].pc # "session"
          => /\ Len(sessions') = Len(sessions) + 1
             /\ response' = CheckoutResponse(200, "url")]_vars

\* the customer holds a trialing, a past_due and an incomplete subscription
\* and was given a checkout session
C37_Witness ==
  /\ response = CheckoutResponse(200, "url")
  /\ Len(sessions) = 1
  /\ sessions[1].customer = 1
  /\ {stripeSubs[s].status : s \in Indices(stripeSubs)}
       = {"trialing", "past_due", "incomplete"}
  /\ \A s \in Indices(stripeSubs) : stripeSubs[s].customer = 1

\* the routes that change a subscription at the provider and in its row
ChangeRoutes ==
  {"cancel", "reactivate", "subscription/change-plan", "stripe/change-plan"}

\* row i holds what the provider holds for its subscription, in the columns
\* the route writes
RowAgreesWithProvider(route, i) ==
  LET row == subscriptions'[i]
      sub == stripeSubs'[row.stripeSubscriptionId]
  IN IF route \in {"cancel", "reactivate"}
     THEN row.cancelAtPeriodEnd = sub.cancel_at_period_end
     ELSE /\ PlanExists(row.planId)
          /\ PriceOf(plans[row.planId], row.billingInterval) = sub.price

CustomersOf(userId) ==
  {c \in Indices(customers) : customers[c].userId = userId}

\* C34: with the calls of getOrCreateCustomer one after the other, a call
\* for a user without a stored id creates one customer tagged with the
\* user and stores its id, a call for a user with a stored id returns that
\* id and creates nothing; so the provider never holds more than one
\* customer of a user, and the stored id is that customer's.
C34_ResolveOrCreate ==
  [][/\ \A r \in Requests :
          /\ req[r].pc = "idle" /\ req'[r].pc # "idle"
             => /\ UNCHANGED <<customers, users>>
                /\ IF users[req'[r].userId] # 0
                   THEN /\ req'[r].pc = "check"
                        /\ req'[r].customerId = users[req'[r].userId]
                   ELSE req'[r].pc = "customer"
          /\ req[r].pc = "customer" /\ req'[r].pc # "customer"
             => /\ Len(customers') = Len(customers) + 1
                /\ Last(customers').userId = req[r].userId
                /\ users'[req[r].userId] = Len(customers')
                /\ req'[r].customerId = Len(customers')
                /\ req'[r].pc = "check"
     /\ \A u \in Users :
          /\ Cardinality(CustomersOf(u))' <= 1
          /\ IF users'[u] = 0 THEN CustomersOf(u)' = {}
             ELSE CustomersOf(u)' = {users'[u]}]_vars

\* a request after the one that got the user's session has resolved the
\* user's customer from the stored id, and the provider holds the one
\* customer
C34_Witness ==
  /\ sessions # <<>>
  /\ req["r1"].pc = "check"
  /\ req["r1"].customerId = users[req["r1"].userId]
  /\ sessions[1].customer = req["r1"].customerId
  /\ Len(customers) = 1

\* C35: a request that read the mapping as empty creates its customer
\* whatever the other request has created or stored since; the mapping a
\* request stores replaces the one stored before; and the check of a
\* request is made on the request's customer alone: it passes when that
\* customer has no active subscription, whatever the user's other customer
\* holds.
C35_LastStoredMappingWins ==
  [][\A r \in RaceRequests :
       /\ req[r].pc = "customer" /\ req'[r].pc # "customer"
          => /\ Len(customers') = Len(customers) + 1
             /\ Last(customers').userId = req[r].userId
             /\ req'[r].customerId = Len(customers')
       /\ req[r].pc = "store" /\ req'[r].pc # "store"
          => users'[req[r].userId] = req[r].customerId
       /\ req[r].pc = "idle" /\ req'[r].pc = "check"
          => req'[r].customerId = users[req'[r].userId]
       /\ req[r].pc = "check" /\ req'[r].pc # "check"
          => IF ActiveSubs(req[r].customerId) = {}
             THEN req'[r].pc = "session"
             ELSE response' = CheckoutResponse(409, "EXISTING_SUBSCRIPTION")]_vars

\* the two first requests made a customer each; one of them holds the
\* user's active subscription, the mapping names the other one,
\* for which a session was made already, and one more request of the user
\* has passed the check
C35_Witness ==
  /\ Len(customers) = 2
  /\ customers[1].userId = "u1"
  /\ customers[2].userId = "u1"
  /\ \E c \in {1, 2} :
        /\ users["u1"] = c
        /\ ActiveSubs(3 - c) # {}
        /\ ActiveSubs(c) = {}
        /\ \E r \in RaceRequests :
              /\ req[r].pc = "session"
              /\ req[r].customerId = c
              /\ \E sid \in Indices(sessions) :
                    /\ sessions[sid].customer = 3 - c
                    /\ sessions[sid].subscription # 0
              /\ \E sid \in Indices(sessions) : sessions[sid].customer = c

\* C36: every row of the plans table has both price ids or neither, and
\* the ids a row has are ids of prices the provider holds for that plan,
\* the monthly one for month and the yearly one for year.
C36_BothPriceIdsOrNeither ==
  \A p \in DOMAIN plans :
     /\ plans[p].stripePriceIdMonthly = NoPrice
        <=> plans[p].stripePriceIdYearly = NoPrice
     /\ plans[p].stripePriceIdMonthly # NoPrice
        => /\ plans[p].stripePriceIdMonthly \in prices
           /\ plans[p].stripePriceIdYearly \in prices
           /\ plans[p].stripePriceIdMonthly.plan = p
           /\ plans[p].stripePriceIdYearly.plan = p
           /\ plans[p].stripePriceIdMonthly.interval = "monthly"
           /\ plans[p].stripePriceIdYearly.interval = "yearly"

\* one plan is synced; the sync of the other stopped after its monthly
\* price was made, and its row has neither id
C36_Witness ==
  /\ DOMAIN plans = {"p1", "p2"}
  /\ \E p \in {"p1", "p2"}, q \in {"p1", "p2"} :
        /\ p # q
        /\ BothPriceIds(plans[p])
        /\ plans[q].stripePriceIdMonthly = NoPrice
        /\ plans[q].stripePriceIdYearly = NoPrice
        /\ PriceId(q, "monthly", 1) \in prices
        /\ PricesOf(prices, q) = {PriceId(q, "monthly", 1)}

\* no row of the plans table holds the price
PriceOfNoPlan(priceId) ==
  \/ priceId = NoPrice
  \/ \A p \in DOMAIN plans :
        /\ plans[p].stripePriceIdMonthly # priceId
        /\ plans[p].stripePriceIdYearly # priceId

\* C38: customer.subscription.updated for a subscription with a row writes
\* the event's status, period bounds and cancel flag to that row and to no
\* other; the billingInterval written is yearly when the item's recurring
\* interval is year and monthly otherwise, matched plan or not; and when
\* the price is of no plan (or there is no item) planId and the plan column
\* stay as they were.
C38_UnknownPriceKeepsPlan ==
  [][\A e \in events, keep \in BOOLEAN :
       WebhookSubscriptionUpdated(e, keep) /\ FindByStripeId(e.sub) # 0
       => LET i == FindByStripeId(e.sub)
              row == subscriptions'[i]
          IN /\ row.status = e.status
             /\ row.currentPeriodStart = ToDate(e.period)
             /\ row.currentPeriodEnd = ToDate(e.period + 1)
             /\ row.cancelAtPeriodEnd = e.cancel
             /\ row.billingInterval =
                  (IF e.interval = "year" THEN "yearly" ELSE "monthly")
             /\ row.userId = subscriptions[i].userId
             /\ row.stripeSubscriptionId = subscriptions[i].stripeSubscriptionId
             /\ PriceOfNoPlan(e.price)
                => /\ row.planId = subscriptions[i].planId
                   /\ row.plan = subscriptions[i].plan
             /\ Len(subscriptions') = Len(subscriptions)
             /\ \A j \in Indices(subscriptions) :
                  j # i => subscriptions'[j] = subscriptions[j]]_vars

\* the subscription bought as starter monthly sits on a yearly price of no
\* plan and is past due: the row says so, yearly, and is still starter
C38_Witness ==
  /\ response = Received("customer.subscription.updated")
  /\ Len(subscriptions) = 1
  /\ stripeSubs[subscriptions[1].stripeSubscriptionId].price
       = PriceId("px", "yearly", 1)
  /\ subscriptions[1].status = "past_due"
  /\ subscriptions[1].billingInterval = "yearly"
  /\ subscriptions[1].planId = "p1"
  /\ subscriptions[1].plan = "starter"

\* between the two states nothing differs at the provider and in the rows
\* but the cancel flag of subscription s and of row i
OnlyFlagChanged(i, s) ==
  /\ Len(subscriptions') = Len(subscriptions)
  /\ Len(stripeSubs') = Len(stripeSubs)
  /\ \A j \in Indices(subscriptions) :
       subscriptions'[j] =
         IF j = i
         THEN [subscriptions[j] EXCEPT
                 !.cancelAtPeriodEnd = subscriptions'[j].cancelAtPeriodEnd]
         ELSE subscriptions[j]
  /\ \A t \in Indices(stripeSubs) :
       stripeSubs'[t] =
         IF t = s
         THEN [stripeSubs[t] EXCEPT
                 !.cancel_at_period_end = stripeSubs'[t].cancel_at_period_end]
         ELSE stripeSubs[t]

====
